---- MODULE Spec2Model ----
(***************************************************************************)
(* A model of the 6502 emulator core (arcos-dev/6502-term): the byte queue *)
(* (queue.h / queue.c), the CPU interface of cpu_6502.c (cpu_read,         *)
(* cpu_write, cpu_reset, cpu_execute_instruction, interrupt injection)     *)
(* and the host threads that use them.                                     *)
(*                                                                         *)
(* The specifications share the variables:                                 *)
(*   Spec       the emulation thread stepping a guest program while host   *)
(*              threads inject interrupts and reset the CPU;               *)
(*   SpecStep   guest programs run instruction by instruction, with the    *)
(*              output thread draining the output queue;                   *)
(*   SpecQueue  host threads calling the byte-queue functions and          *)
(*              cpu_read(INPUT_ADDR) concurrently on cpu->input_queue;     *)
(*   SpecPause  the pause handling of cpu_execute_instruction beside       *)
(*              cpu_pause and cpu_resume, with fairness;                   *)
(*   SpecClock  clock_wait_next_cycle beside cpu_set_clock_frequency;      *)
(*   SpecHost   main.c: the emulation loop, the key handlers and the       *)
(*              renderer over the volatile flags;                          *)
(*   SpecOps    single instructions run on registers and operands drawn    *)
(*              from bounded sets.                                         *)
(***************************************************************************)
EXTENDS Integers, Sequences, FiniteSets, TLC

(***************************************************************************)
(* Bounds of the model.                                                    *)
(***************************************************************************)
\* queue.h:8 is "#define QUEUE_SIZE 1024"; the model keeps the name and scales
\* the capacity down so that a full queue and index wrap-around are reached.
QUEUE_SIZE == 3
\* The emulation thread stops taking new steps once the cycle counter has
\* reached this value (the counter is a uint64_t that otherwise only grows).
MaxCycles == 12
\* Injections of one kind that may still be awaiting service (counted in groups:
\* injections that coalesce on a set latch are one group).
MaxInject == 2
\* Bytes a host thread may offer to queue_enqueue in SpecQueue.
MaxEnq == 4

(***************************************************************************)
(* Program constants.                                                      *)
(***************************************************************************)
INPUT_ADDR     == 53265   \* 0xD011
OUTPUT_ADDR    == 53266   \* 0xD012
FLAG_CARRY     == 0
FLAG_ZERO      == 1
FLAG_INTERRUPT == 2
FLAG_DECIMAL   == 3
FLAG_BREAK     == 4
FLAG_UNUSED    == 5
FLAG_OVERFLOW  == 6
FLAG_NEGATIVE  == 7
RAM_SIZE       == 65536   \* memory_create_ram(0x10000)

(***************************************************************************)
(* Fixed-width arithmetic.                                                 *)
(***************************************************************************)
U8(n)  == n % 256
U16(n) == n % 65536
Lo(w)  == w % 256
Hi(w)  == (w \div 256) % 256
Word(low, high) == high * 256 + low

RECURSIVE Pow2(_)
Pow2(i) == IF i = 0 THEN 1 ELSE 2 * Pow2(i - 1)

Bit(v, i)    == (v \div Pow2(i)) % 2
SetBit(v, i) == IF Bit(v, i) = 1 THEN v ELSE v + Pow2(i)
ClrBit(v, i) == IF Bit(v, i) = 1 THEN v - Pow2(i) ELSE v

(***************************************************************************)
(* Status-flag helpers.  FLAG_* are bit numbers (main.c tests               *)
(* P & (1 << FLAG_x)); get_flag yields 0 or 1.                             *)
(***************************************************************************)
get_flag(c, flag) == Bit(c.P, flag)
set_flag(c, flag, value) ==
    [c EXCEPT !.P = IF value THEN SetBit(@, flag) ELSE ClrBit(@, flag)]
update_zero_and_negative_flags(c, value) ==
    set_flag(set_flag(c, FLAG_ZERO, value = 0), FLAG_NEGATIVE, Bit(value, 7) = 1)

(***************************************************************************)
(* Byte queue: queue_t is {data[QUEUE_SIZE], head, tail, count, mutex}.    *)
(* The mutex is the variable qmutex below; these operators are the bodies  *)
(* of the critical sections.                                               *)
(***************************************************************************)
QIndex == 0 .. (QUEUE_SIZE - 1)

queue_init == [data |-> [i \in QIndex |-> 0], head |-> 0, tail |-> 0, count |-> 0]

\* The capacity of a queue is the length of its data array: QUEUE_SIZE in every
\* queue that queue_init builds.
Size(q) == Cardinality(DOMAIN q.data)

\* A full test that lets one byte too many in.
queue_full_late(q) == q.count > Size(q)
\* queue_enqueue, lines 124-128: the full test.
queue_full(q) == q.count = Size(q)
\* queue_enqueue, lines 130-131: store the byte and advance tail.
enqueue_store(q, byte) ==
    [q EXCEPT !.data[q.tail] = byte, !.tail = (q.tail + 1) % Size(q)]
\* queue_enqueue, line 132.
enqueue_count(q) == [q EXCEPT !.count = @ + 1]
\* An enqueue that overwrites the oldest byte of a full queue.
queue_enqueue_overwrite(q, byte) ==
    IF queue_full(q)
    THEN [q |-> [enqueue_store(q, byte) EXCEPT !.head = (q.head + 1) % Size(q)],
          ret |-> TRUE]
    ELSE [q |-> enqueue_count(enqueue_store(q, byte)), ret |-> TRUE]
\* The whole call, as one thread sees it under the mutex.
queue_enqueue(q, byte) ==
    IF queue_full(q)
    THEN [q |-> q, ret |-> FALSE]
    ELSE [q |-> enqueue_count(enqueue_store(q, byte)), ret |-> TRUE]

\* queue_dequeue, lines 144-148: the empty test.
queue_empty(q) == q.count = 0
\* A load that leaves head where it is.
dequeue_load_stuck(q) == [q |-> q, byte |-> q.data[q.head]]
\* queue_dequeue, lines 150-151: read the byte and advance head.
dequeue_load(q) == [q |-> [q EXCEPT !.head = (q.head + 1) % Size(q)],
                    byte |-> q.data[q.head]]
\* queue_dequeue, line 152.
dequeue_count(q) == [q EXCEPT !.count = @ - 1]
queue_dequeue(q) ==
    IF queue_empty(q)
    THEN [q |-> q, ret |-> FALSE, byte |-> 0]
    ELSE LET r == dequeue_load(q)
         IN  [q |-> dequeue_count(r.q), ret |-> TRUE, byte |-> r.byte]

\* A clear that forgets tail.
clear_head_only(q) == [q EXCEPT !.head = 0]
\* queue_clear, lines 176-177 and 178.
clear_indices(q) == [q EXCEPT !.head = 0, !.tail = 0]
clear_count(q)   == [q EXCEPT !.count = 0]
queue_clear(q)   == clear_count(clear_indices(q))

\* The bytes a queue holds, oldest first.
RECURSIVE QContents(_, _)
QContents(q, k) ==
    IF k = 0 THEN << >>
    ELSE Append(QContents(q, k - 1), q.data[(q.head + k - 1) % Size(q)])
Contents(q) == IF q.count \in 0 .. Size(q) THEN QContents(q, q.count) ELSE << >>

(***************************************************************************)
(* Memory.  The 64 KiB store is calloc'ed; it is kept as the map of its    *)
(* non-zero bytes.                                                         *)
(***************************************************************************)
ram_read(mem, addr) ==
    IF addr >= RAM_SIZE THEN 255
    ELSE IF addr \in DOMAIN mem THEN mem[addr] ELSE 0
\* A store of half the size that mirrors the upper half onto the lower.
ram_write_mirrored(mem, addr, data) ==
    [a \in (IF data = 0 THEN DOMAIN mem \ {addr % 32768}
                        ELSE DOMAIN mem \cup {addr % 32768}) |->
        IF a = addr % 32768 THEN data ELSE mem[a]]
ram_write(mem, addr, data) ==
    IF addr >= RAM_SIZE THEN mem
    ELSE [a \in (IF data = 0 THEN DOMAIN mem \ {addr} ELSE DOMAIN mem \cup {addr}) |->
             IF a = addr THEN data ELSE mem[a]]

\* The bus with the one device the hosts connect over 0x0000..0xFFFF.
bus_read(mem, addr)        == ram_read(mem, addr)
bus_write(mem, addr, data) == ram_write(mem, addr, data)

(***************************************************************************)
(* cpu_read / cpu_write with the memory-mapped ports.  c is the cpu_6502_t *)
(* record; an operator that reads returns [cpu, val].                      *)
(***************************************************************************)
\* A port write that also reaches the bus.
cpu_write_through(c, addr, data) ==
    IF addr = OUTPUT_ADDR
    THEN [c EXCEPT !.output_queue = queue_enqueue(@, data).q,
                   !.mem = bus_write(@, addr, data)]
    ELSE [c EXCEPT !.mem = bus_write(@, addr, data)]

\* A port read that falls through to the bus when the queue is empty.
read_port_fallthrough(c, ret) ==
    IF ret.ok THEN ret.val ELSE bus_read(c.mem, INPUT_ADDR)
\* Lines 1441-1447: what cpu_read returns for INPUT_ADDR once queue_dequeue has
\* returned ret = [ok, val].
read_port_value(c, ret) == IF ret.ok THEN ret.val ELSE 0

cpu_read(c, addr) ==
    IF addr = INPUT_ADDR
    THEN LET r == queue_dequeue(c.input_queue)
         IN  [cpu |-> [c EXCEPT !.input_queue = r.q],
              val |-> read_port_value(c, [ok |-> r.ret, val |-> r.byte])]
    ELSE [cpu |-> c, val |-> bus_read(c.mem, addr)]

cpu_write(c, addr, data) ==
    IF addr = OUTPUT_ADDR
    THEN [c EXCEPT !.output_queue = queue_enqueue(@, data).q]
    ELSE [c EXCEPT !.mem = bus_write(@, addr, data)]

fetch_byte(c) ==
    LET r == cpu_read(c, c.PC)
    IN  [cpu |-> [r.cpu EXCEPT !.PC = U16(@ + 1)], val |-> r.val]

fetch_word(c) ==
    LET l == cpu_read(c, c.PC)
        c1 == [l.cpu EXCEPT !.PC = U16(@ + 1)]
        h == cpu_read(c1, c1.PC)
    IN  [cpu |-> [h.cpu EXCEPT !.PC = U16(@ + 1)], val |-> Word(l.val, h.val)]

push_byte(c, value) ==
    [cpu_write(c, 256 + c.SP, value) EXCEPT !.SP = U8(@ + 255)]

\* A pull whose stack pointer does not wrap.
pull_byte_unwrapped(c) ==
    LET c1 == [c EXCEPT !.SP = @ + 1]
    IN  cpu_read(c1, 256 + c1.SP)
pull_byte(c) ==
    LET c1 == [c EXCEPT !.SP = U8(@ + 1)]
    IN  cpu_read(c1, 256 + c1.SP)

push_word(c, value) == push_byte(push_byte(c, Hi(value)), Lo(value))

pull_word(c) ==
    LET l == pull_byte(c)
        h == pull_byte(l.cpu)
    IN  [cpu |-> h.cpu, val |-> Word(l.val, h.val)]

\* Reading a 16-bit vector: cpu_read(v) | (cpu_read(v + 1) << 8).
read_vector(c, v) ==
    LET l == cpu_read(c, v)
        h == cpu_read(l.cpu, v + 1)
    IN  [cpu |-> h.cpu, val |-> Word(l.val, h.val)]

(***************************************************************************)
(* CPU life cycle.                                                         *)
(***************************************************************************)
\* cpu_init: the register file, latches and flags it sets; mem is the store of
\* the device the host connects, the queues are empty.
cpu_init(mem) ==
    [A |-> 0, X |-> 0, Y |-> 0, PC |-> 0, SP |-> \hFD, P |-> \h34,
     cycle_count |-> 0, IRQ_pending |-> FALSE, NMI_pending |-> FALSE,
     paused |-> FALSE, mem |-> mem,
     input_queue |-> queue_init, output_queue |-> queue_init]

\* A reset that leaves the status register as it finds it.
cpu_reset_keep_status(c) ==
    LET c1 == [c EXCEPT !.A = 0, !.X = 0, !.Y = 0, !.SP = \hFD]
        low == cpu_read(c1, \hFFFC)
        high == cpu_read(low.cpu, \hFFFD)
    IN  [high.cpu EXCEPT !.PC = Word(low.val, high.val),
                         !.cycle_count = 0,
                         !.IRQ_pending = FALSE,
                         !.NMI_pending = FALSE,
                         !.paused = FALSE]

cpu_reset(c) ==
    LET c1 == [c EXCEPT !.A = 0, !.X = 0, !.Y = 0, !.SP = \hFD, !.P = \h34]
        low == cpu_read(c1, \hFFFC)
        high == cpu_read(low.cpu, \hFFFD)
    IN  [high.cpu EXCEPT !.PC = Word(low.val, high.val),
                         !.cycle_count = 0,
                         !.IRQ_pending = FALSE,
                         !.NMI_pending = FALSE,
                         !.paused = FALSE]

(***************************************************************************)
(* Addressing modes.  c is the CPU after the opcode fetch; each returns the *)
(* effective_address_t and the CPU after the operand fetch.                *)
(***************************************************************************)
EA(c, address, page_crossed) ==
    [cpu |-> c, address |-> address, page_crossed |-> page_crossed]
SamePage(a, b) == a \div 256 = b \div 256
\* base + index as a uint16_t, and whether it left the page of base.
indexed(c, base, index) ==
    LET effective == U16(base + index)
    IN  EA(c, effective, ~SamePage(base, effective))

addr_immediate(c) == EA([c EXCEPT !.PC = U16(@ + 1)], c.PC, FALSE)

addr_absolute(c) ==
    LET ea(w) == EA(w.cpu, w.val, FALSE)
    IN  ea(fetch_word(c))

addr_absolute_x(c) ==
    LET ea(w) == indexed(w.cpu, w.val, w.cpu.X)
    IN  ea(fetch_word(c))

\* A pointer read that carries into the next page.
addr_indirect_linear(c) ==
    LET ea(low, high) == EA(high.cpu, Word(low.val, high.val), FALSE)
        second(ptr, low) == ea(low, cpu_read(low.cpu, U16(ptr + 1)))
        first(w) == second(w.val, cpu_read(w.cpu, w.val))
    IN  first(fetch_word(c))
\* The pointer's high byte is read from the pointer's own page.
addr_indirect(c) ==
    LET ea(low, high) == EA(high.cpu, Word(low.val, high.val), FALSE)
        second(ptr, low) ==
            ea(low, cpu_read(low.cpu, (ptr \div 256) * 256 + U8(ptr + 1)))
        first(w) == second(w.val, cpu_read(w.cpu, w.val))
    IN  first(fetch_word(c))

\* (int8_t)byte
int8(byte) == IF byte >= 128 THEN byte - 256 ELSE byte
\* An offset taken as unsigned.
addr_relative_unsigned(c) ==
    LET ea(f) == indexed(f.cpu, f.cpu.PC, f.val)
    IN  ea(fetch_byte(c))
addr_relative(c) ==
    LET ea(f) == indexed(f.cpu, f.cpu.PC, 65536 + int8(f.val))
    IN  ea(fetch_byte(c))

\* mode(cpu), for the addressing_mode_func_t an opcode table entry holds.
call(mode, c) ==
    CASE mode = "addr_immediate" -> addr_immediate(c)
      [] mode = "addr_absolute" -> addr_absolute(c)
      [] mode = "addr_absolute_x" -> addr_absolute_x(c)
      [] mode = "addr_indirect" -> addr_indirect(c)
      [] mode = "addr_relative" -> addr_relative(c)

\* if (ea.page_crossed) cpu->clock.cycle_count += 1;
page_cycle(c, ea) == IF ea.page_crossed THEN [c EXCEPT !.cycle_count = @ + 1] ELSE c

(***************************************************************************)
(* Instructions.  c is the CPU after the opcode fetch.  An instruction is  *)
(* written as its statements in order, each handing its result to the     *)
(* next: ea is what mode(cpu) returned, r what cpu_read returned.          *)
(***************************************************************************)
instr_nop(c) == c
instr_cli(c) == set_flag(c, FLAG_INTERRUPT, FALSE)
instr_sei(c) == set_flag(c, FLAG_INTERRUPT, TRUE)

instr_lda(c, mode) ==
    LET load(ea, r) ==
            page_cycle(update_zero_and_negative_flags([r.cpu EXCEPT !.A = r.val], r.val), ea)
        read(ea) == load(ea, cpu_read(ea.cpu, ea.address))
    IN  read(call(mode, c))

instr_sta(c, mode) ==
    LET store(ea) == cpu_write(ea.cpu, ea.address, ea.cpu.A)
    IN  store(call(mode, c))

instr_jmp(c, mode) ==
    LET jump(ea) == [ea.cpu EXCEPT !.PC = ea.address]
    IN  jump(call(mode, c))

instr_jsr(c, mode) ==
    LET jump(ea) ==
            [push_word(ea.cpu, U16(ea.cpu.PC + 65536 - 1)) EXCEPT !.PC = ea.address]
    IN  jump(call(mode, c))

\* A return to the pulled address itself.
instr_rts_no_increment(c) == LET w == pull_word(c) IN [w.cpu EXCEPT !.PC = w.val]
instr_rts(c) == LET w == pull_word(c) IN [w.cpu EXCEPT !.PC = U16(w.val + 1)]

instr_adc(c, mode) ==
    LET decimal(c0, A, value, carry) ==
            LET al0 == U8((A % 16) + (value % 16) + carry)
                ah0 == U8((A \div 16) + (value \div 16))
                al == IF al0 > 9 THEN U8(al0 + 256 - 10) ELSE al0
                ah1 == IF al0 > 9 THEN U8(ah0 + 1) ELSE ah0
                ah == IF ah1 > 9 THEN U8(ah1 + 256 - 10) ELSE ah1
                bcd == U8(ah * 16 + (al % 16))
            IN  update_zero_and_negative_flags(
                    [set_flag(c0, FLAG_CARRY, ah1 > 9) EXCEPT !.A = bcd], bcd)
        binary(c0, A, value, carry) ==
            LET sum == A + value + carry
                result == sum % 256
                overflow == Bit(A, 7) = Bit(value, 7) /\ Bit(A, 7) # Bit(result, 7)
            IN  update_zero_and_negative_flags(
                    [set_flag(set_flag(c0, FLAG_CARRY, sum > 255), FLAG_OVERFLOW, overflow)
                        EXCEPT !.A = result], result)
        add(ea, r) ==
            page_cycle(IF get_flag(r.cpu, FLAG_DECIMAL) = 1
                       THEN decimal(r.cpu, r.cpu.A, r.val, get_flag(r.cpu, FLAG_CARRY))
                       ELSE binary(r.cpu, r.cpu.A, r.val, get_flag(r.cpu, FLAG_CARRY)), ea)
        read(ea) == add(ea, cpu_read(ea.cpu, ea.address))
    IN  read(call(mode, c))

\* A subtraction that never borrows from the carry.
instr_sbc_carry_ignored(c, mode) ==
    LET binary(c0, A, value) ==
            LET diff == U16(A + 65536 - value)
            IN  update_zero_and_negative_flags(
                    [set_flag(c0, FLAG_CARRY, diff < 256) EXCEPT !.A = diff % 256],
                    diff % 256)
        read(ea, r) == binary(r.cpu, r.cpu.A, r.val)
        first(ea) == read(ea, cpu_read(ea.cpu, ea.address))
    IN  first(call(mode, c))
instr_sbc(c, mode) ==
    LET \* uint16_t diff = A - value - carry
        binary(c0, A, value, carry) ==
            LET diff == U16(A + 65536 - value - carry)
                result == diff % 256
                overflow == Bit(A, 7) # Bit(value, 7) /\ Bit(A, 7) # Bit(result, 7)
            IN  update_zero_and_negative_flags(
                    [set_flag(set_flag(c0, FLAG_CARRY, diff < 256), FLAG_OVERFLOW, overflow)
                        EXCEPT !.A = result], result)
        \* the decimal branch is empty
        subtract(ea, r) ==
            page_cycle(IF get_flag(r.cpu, FLAG_DECIMAL) = 1
                       THEN r.cpu
                       ELSE binary(r.cpu, r.cpu.A, r.val,
                                   IF get_flag(r.cpu, FLAG_CARRY) = 1 THEN 0 ELSE 1), ea)
        read(ea) == subtract(ea, cpu_read(ea.cpu, ea.address))
    IN  read(call(mode, c))

\* The read-modify-write of the memory forms: carry out, the new byte stored,
\* Z and N from it.
modify(c, address, carry_out, value) ==
    update_zero_and_negative_flags(
        cpu_write(set_flag(c, FLAG_CARRY, carry_out), address, value), value)
accumulate(c, carry_out, value) ==
    update_zero_and_negative_flags(
        [set_flag(c, FLAG_CARRY, carry_out) EXCEPT !.A = value], value)

instr_asl(c, mode) ==
    LET shift(ea, r) ==
            page_cycle(modify(r.cpu, ea.address, Bit(r.val, 7) = 1, U8(r.val * 2)), ea)
        read(ea) == shift(ea, cpu_read(ea.cpu, ea.address))
    IN  read(call(mode, c))
instr_asl_accumulator(c) == accumulate(c, Bit(c.A, 7) = 1, U8(c.A * 2))

instr_lsr(c, mode) ==
    LET shift(ea, r) == modify(r.cpu, ea.address, Bit(r.val, 0) = 1, r.val \div 2)
        read(ea) == shift(ea, cpu_read(ea.cpu, ea.address))
    IN  read(call(mode, c))
instr_lsr_accumulator(c) == accumulate(c, Bit(c.A, 0) = 1, c.A \div 2)

instr_rol(c, mode) ==
    LET rotate(ea, r) ==
            modify(r.cpu, ea.address, Bit(r.val, 7) = 1,
                   U8(r.val * 2) + get_flag(r.cpu, FLAG_CARRY))
        read(ea) == rotate(ea, cpu_read(ea.cpu, ea.address))
    IN  read(call(mode, c))
\* A rotate that shifts in zero.
instr_rol_accumulator_no_carry(c) == accumulate(c, Bit(c.A, 7) = 1, U8(c.A * 2))
instr_rol_accumulator(c) ==
    accumulate(c, Bit(c.A, 7) = 1, U8(c.A * 2) + get_flag(c, FLAG_CARRY))

instr_ror(c, mode) ==
    LET rotate(ea, r) ==
            modify(r.cpu, ea.address, Bit(r.val, 0) = 1,
                   (r.val \div 2) + get_flag(r.cpu, FLAG_CARRY) * 128)
        read(ea) == rotate(ea, cpu_read(ea.cpu, ea.address))
    IN  read(call(mode, c))
instr_ror_accumulator(c) ==
    accumulate(c, Bit(c.A, 0) = 1, (c.A \div 2) + get_flag(c, FLAG_CARRY) * 128)

\* The eight branch functions: ea = mode(cpu); if the flag has the value
\* branched on, PC = ea.address and one cycle, one more on a page cross.
branch(c, mode, flag, value) ==
    LET decide(ea) ==
            IF get_flag(ea.cpu, flag) = value
            THEN page_cycle([ea.cpu EXCEPT !.PC = ea.address, !.cycle_count = @ + 1], ea)
            ELSE ea.cpu
    IN  decide(call(mode, c))
instr_bcc(c, mode) == branch(c, mode, FLAG_CARRY, 0)
instr_bcs(c, mode) == branch(c, mode, FLAG_CARRY, 1)
instr_beq(c, mode) == branch(c, mode, FLAG_ZERO, 1)
instr_bmi(c, mode) == branch(c, mode, FLAG_NEGATIVE, 1)
instr_bne(c, mode) == branch(c, mode, FLAG_ZERO, 0)
instr_bpl(c, mode) == branch(c, mode, FLAG_NEGATIVE, 0)
instr_bvc(c, mode) == branch(c, mode, FLAG_OVERFLOW, 0)
instr_bvs(c, mode) == branch(c, mode, FLAG_OVERFLOW, 1)

instr_tax(c) == update_zero_and_negative_flags([c EXCEPT !.X = c.A], c.A)
instr_tay(c) == update_zero_and_negative_flags([c EXCEPT !.Y = c.A], c.A)

instr_pha(c) == push_byte(c, c.A)
\* A pull that leaves the flags alone.
instr_pla_no_flags(c) == LET p == pull_byte(c) IN [p.cpu EXCEPT !.A = p.val]
instr_pla(c) ==
    LET p == pull_byte(c)
    IN  update_zero_and_negative_flags([p.cpu EXCEPT !.A = p.val], p.val)
\* P | 0x30
instr_php(c) == push_byte(c, SetBit(SetBit(c.P, FLAG_BREAK), FLAG_UNUSED))
\* (pull_byte & 0xEF) | 0x20
instr_plp(c) ==
    LET p == pull_byte(c)
    IN  [p.cpu EXCEPT !.P = SetBit(ClrBit(p.val, FLAG_BREAK), FLAG_UNUSED)]

\* A return that leaves the status register as the handler had it.
instr_rti_keep_status(c) ==
    LET w == pull_word(pull_byte(c).cpu) IN [w.cpu EXCEPT !.PC = w.val]
instr_rti(c) ==
    LET p == pull_byte(c)
        w == pull_word([p.cpu EXCEPT !.P = p.val])
    IN  [w.cpu EXCEPT !.PC = w.val]

instr_brk(c) ==
    LET c1 == [c EXCEPT !.PC = U16(@ + 1)]
        c2 == set_flag(push_word(c1, c1.PC), FLAG_BREAK, TRUE)
        c3 == set_flag(push_byte(c2, SetBit(c2.P, FLAG_BREAK)), FLAG_INTERRUPT, TRUE)
        v == read_vector(c3, \hFFFE)
    IN  [v.cpu EXCEPT !.PC = v.val]

\* The opcodes initialize_opcode_table gives an entry (op->execute != NULL).
OpcodeTable ==
    {\h00, \h01, \h05, \h06, \h08, \h09, \h0A, \h0D, \h0E, \h10, \h11, \h15, \h16,
     \h18, \h19, \h1D, \h1E, \h20, \h21, \h24, \h25, \h26, \h28, \h29, \h2A, \h2C,
     \h2D, \h2E, \h30, \h31, \h35, \h36, \h38, \h39, \h3D, \h3E, \h40, \h41, \h45,
     \h46, \h48, \h49, \h4A, \h4C, \h4D, \h4E, \h50, \h51, \h55, \h56, \h58, \h59,
     \h5D, \h5E, \h60, \h61, \h65, \h66, \h68, \h69, \h6A, \h6C, \h6D, \h6E, \h70,
     \h71, \h75, \h76, \h78, \h79, \h7D, \h7E, \h81, \h84, \h85, \h86, \h88, \h8A,
     \h8C, \h8D, \h8E, \h90, \h91, \h94, \h95, \h96, \h98, \h99, \h9A, \h9D, \hA0,
     \hA1, \hA2, \hA4, \hA5, \hA6, \hA8, \hA9, \hAA, \hAC, \hAD, \hAE, \hB0, \hB1,
     \hB4, \hB5, \hB6, \hB8, \hB9, \hBA, \hBC, \hBD, \hBE, \hC0, \hC1, \hC4, \hC5,
     \hC6, \hC8, \hC9, \hCA, \hCC, \hCD, \hCE, \hD0, \hD1, \hD5, \hD6, \hD8, \hD9,
     \hDD, \hDE, \hE0, \hE1, \hE4, \hE5, \hE6, \hE8, \hE9, \hEA, \hEB, \hEC, \hED,
     \hEE, \hF0, \hF1, \hF5, \hF6, \hF8, \hF9, \hFD, \hFE}

\* The table entries the model executes; a guest program holds no other
\* documented opcode.
Executable == {\h00, \h08, \h28, \h40, \h48, \h4C, \h58, \h78, \h8D, \hA8, \hAA,
               \hAD, \hEA,
               \h0A, \h0E, \h10, \h1E, \h20, \h2A, \h2E, \h30, \h4A, \h4E, \h50,
               \h60, \h68, \h69, \h6A, \h6C, \h6E, \h70, \h90, \h9D, \hB0, \hBD,
               \hD0, \hE9, \hF0}

\* op->execute(cpu, op->addr_mode) for the opcode just fetched.
dispatch(c, opcode) ==
    CASE opcode = \h00 -> instr_brk(c)
      [] opcode = \h08 -> instr_php(c)
      [] opcode = \h28 -> instr_plp(c)
      [] opcode = \h48 -> instr_pha(c)
      [] opcode = \h40 -> instr_rti(c)
      [] opcode = \h4C -> instr_jmp(c, "addr_absolute")
      [] opcode = \h58 -> instr_cli(c)
      [] opcode = \h78 -> instr_sei(c)
      [] opcode = \h8D -> instr_sta(c, "addr_absolute")
      [] opcode = \hA8 -> instr_tay(c)
      [] opcode = \hAA -> instr_tax(c)
      [] opcode = \hAD -> instr_lda(c, "addr_absolute")
      [] opcode = \hEA -> instr_nop(c)
      [] opcode = \h0A -> instr_asl_accumulator(c)
      [] opcode = \h0E -> instr_asl(c, "addr_absolute")
      [] opcode = \h1E -> instr_asl(c, "addr_absolute_x")
      [] opcode = \h4A -> instr_lsr_accumulator(c)
      [] opcode = \h4E -> instr_lsr(c, "addr_absolute")
      [] opcode = \h2A -> instr_rol_accumulator(c)
      [] opcode = \h2E -> instr_rol(c, "addr_absolute")
      [] opcode = \h6A -> instr_ror_accumulator(c)
      [] opcode = \h6E -> instr_ror(c, "addr_absolute")
      [] opcode = \h69 -> instr_adc(c, "addr_immediate")
      [] opcode = \hE9 -> instr_sbc(c, "addr_immediate")
      [] opcode = \hBD -> instr_lda(c, "addr_absolute_x")
      [] opcode = \h9D -> instr_sta(c, "addr_absolute_x")
      [] opcode = \h6C -> instr_jmp(c, "addr_indirect")
      [] opcode = \h20 -> instr_jsr(c, "addr_absolute")
      [] opcode = \h60 -> instr_rts(c)
      [] opcode = \h68 -> instr_pla(c)
      [] opcode = \h10 -> instr_bpl(c, "addr_relative")
      [] opcode = \h30 -> instr_bmi(c, "addr_relative")
      [] opcode = \h50 -> instr_bvc(c, "addr_relative")
      [] opcode = \h70 -> instr_bvs(c, "addr_relative")
      [] opcode = \h90 -> instr_bcc(c, "addr_relative")
      [] opcode = \hB0 -> instr_bcs(c, "addr_relative")
      [] opcode = \hD0 -> instr_bne(c, "addr_relative")
      [] opcode = \hF0 -> instr_beq(c, "addr_relative")
      [] OTHER -> c

(***************************************************************************)
(* cpu_execute_instruction, in the pieces between which another thread can *)
(* run: the pause wait, the latch sampling under interrupt_mutex, the      *)
(* service sequence, and the paced fetch and execution.                    *)
(***************************************************************************)
sample_handle_nmi(c) == c.NMI_pending
sample_handle_irq(c) == c.IRQ_pending /\ get_flag(c, FLAG_INTERRUPT) = 0

\* Lines 1613-1624: the latches after sampling.
sample_clear(c, hn, hi) ==
    [c EXCEPT !.NMI_pending = IF hn THEN FALSE ELSE @,
              !.IRQ_pending = IF hi THEN FALSE ELSE @]

\* Lines 1627-1652, entered when handle_nmi || handle_irq.
service_interrupt(c, hn, hi) ==
    LET c1 == push_byte(push_word(c, c.PC), c.P)
        c2 == set_flag(c1, FLAG_INTERRUPT, hi)
        v == read_vector(c2, IF hn THEN \hFFFA ELSE \hFFFE)
    IN  [v.cpu EXCEPT !.PC = v.val, !.cycle_count = @ + 7]

\* clock_wait_next_cycle: the sleep is wall-clock time; the counter advances.
clock_wait_next_cycle(c) == [c EXCEPT !.cycle_count = @ + 1]

\* Lines 1654-1691: pace, fetch, decode, execute.
fetch_and_execute(c) ==
    LET f == fetch_byte(clock_wait_next_cycle(c))
    IN  IF f.val \in OpcodeTable
        THEN [cpu |-> dispatch(f.cpu, f.val), status |-> "CPU_SUCCESS"]
        ELSE [cpu |-> f.cpu, status |-> "CPU_ERROR_INVALID_OPCODE"]

(***************************************************************************)
(* Guest programs and host input the model runs.                           *)
(***************************************************************************)
\* The byte a guest or loader has stored at the address of a port.
BackingByte == \h55

RECURSIVE Repeat(_, _)
Repeat(bytes, n) == IF n = 0 THEN << >> ELSE bytes \o Repeat(bytes, n - 1)

At(base, bytes) == [a \in base .. (base + Len(bytes) - 1) |-> bytes[a - base + 1]]
NonZero(f) == [a \in {x \in DOMAIN f : f[x] # 0} |-> f[a]]

Vectors == At(\hFFFA, <<\h00, \h90, \h00, \h80, \h00, \hA0>>)

\* CLI; LDA $D011; TAX; SEI; JMP $8000 - NMI: TAY; RTI - IRQ: NOP; RTI
ImageLoop ==
    NonZero(At(\h8000, <<\h58, \hAD, \h11, \hD0, \hAA, \h78, \h4C, \h00, \h80>>)
            @@ At(\h9000, <<\hA8, \h40>>) @@ At(\hA000, <<\hEA, \h40>>) @@ Vectors)

\* CLI; LDA $D011; STA $D012; BRK; (pad); undocumented $02 - NMI: RTI - IRQ/BRK: RTI
ImageBrk ==
    NonZero(At(\h8000, <<\h58, \hAD, \h11, \hD0, \h8D, \h12, \hD0, \h00, \hEA, \h02>>)
            @@ At(\h9000, <<\h40>>) @@ At(\hA000, <<\h40>>) @@ Vectors)

Images == {ImageLoop, ImageBrk}

\* LDA $D011; STA $D012 once more than the output queue holds; undocumented
\* $02 - NMI: RTI - IRQ/BRK: RTI; a byte stored at the output port's address
ImageOut ==
    NonZero(At(\h8000, <<\hAD, \h11, \hD0>>
                         \o Repeat(<<\h8D, \h12, \hD0>>, QUEUE_SIZE + 1) \o <<\h02>>)
            @@ At(\h9000, <<\h40>>) @@ At(\hA000, <<\h40>>)
            @@ At(OUTPUT_ADDR, <<BackingByte>>) @@ Vectors)

\* Three times LDA $D011; PHA (a return frame built by hand); RTI to $800D:
\* BRK; (pad); PHP; PLP; undocumented $02 - NMI: RTI - IRQ/BRK: RTI
ImageFrame ==
    NonZero(At(\h8000, <<\hAD, \h11, \hD0, \h48, \hAD, \h11, \hD0, \h48,
                         \hAD, \h11, \hD0, \h48, \h40, \h00, \hEA, \h08, \h28, \h02>>)
            @@ At(\h9000, <<\h40>>) @@ At(\hA000, <<\h40>>) @@ Vectors)

\* The programs of SpecStep, each with the line typed before it starts.
StepCases == {<<ImageOut, <<\h80>> >>, <<ImageFrame, <<\h80, \h0D, \h01>> >>}

\* Lines typed into the serial input before the emulation starts.
InputLines == {<< >>, <<\h80, \h41>>}

RECURSIVE EnqueueAll(_, _)
EnqueueAll(q, line) ==
    IF line = << >> THEN q
    ELSE LET r == queue_enqueue(q, Head(line))
         IN  IF r.ret THEN EnqueueAll(r.q, Tail(line)) ELSE EnqueueAll(q, Tail(line))

(***************************************************************************)
(* State.                                                                  *)
(***************************************************************************)
VARIABLES
    cpu,         \* the cpu_6502_t: registers, clock counter, latches, pause flag,
                 \* the connected 64 KiB store, the two byte queues
    epc,         \* where the emulation thread is in cpu_execute_instruction
    handle_nmi,  \* locals of the step in progress
    handle_irq,
    status,      \* what the last cpu_execute_instruction returned
    smp,         \* history: the latches and registers the last sampling saw;
                 \* deferred: a step has left an IRQ latched because it
                 \* began with NMI clear and I set, and no step has taken
                 \* the IRQ vector since; due: that was so when this step
                 \* began; cpu: the whole cpu_6502_t at the sampling
    serviced,    \* history: the vector the step in progress has taken, if any
    injSince,    \* history: the latches set again since the last sampling
    owed,        \* history: per kind, injection groups not yet serviced
    frames,      \* history: for each push not yet pulled, newest first, what
                 \* pushed it (the interrupt service or the opcode) and the
                 \* registers it found
    last,        \* history: the operation that produced this state; for
                 \* cpu_reset, the registers and latches it found; for the
                 \* fetch and execution, the opcode and the cpu_6502_t it
                 \* found
    qmutex,      \* holder of cpu->input_queue.mutex, or "free"
    iqmutex,     \* holder of cpu->input_queue_mutex, or "free"
    tpc,         \* per host thread, its place in the call it is making
    targ,        \* per host thread, the byte passed to queue_enqueue
    tret,        \* per host thread, what its last call returned
    tsnap,       \* history: per host thread, the queue as it was when the call
                 \* took the queue mutex
    accepted,    \* history: bytes of successful enqueues, in order
    delivered,   \* history: bytes of successful dequeues, in order
    offered,     \* history: number of queue_enqueue calls made
    apart,       \* history: a queue_clear was called, or the third thread has
                 \* enqueued or dequeued
    ctl,         \* cpu->pause_mutex and the thread calling cpu_pause, cpu_resume
    clk,         \* the cpu_clock_t fields beside the cycle counter, and the
                 \* threads inside clock_wait_next_cycle, cpu_set_clock_frequency
    host         \* main.c: the volatile flags, the emulation loop's position

cpuVars   == <<cpu, epc, handle_nmi, handle_irq, status, smp, serviced, injSince,
               owed, frames, last>>
queueVars == <<qmutex, iqmutex, tpc, targ, tret, tsnap, accepted, delivered,
               offered, apart>>
vars == <<cpu, epc, handle_nmi, handle_irq, status, smp, serviced, injSince,
          owed, frames, last, qmutex, iqmutex, tpc, targ, tret, tsnap, accepted,
          delivered, offered, apart, ctl, clk, host>>
hostVars == <<ctl, clk, host>>

Threads == {"producer", "consumer", "other"}
Kinds   == {"NMI", "IRQ"}

NoSample == [NMI |-> FALSE, IRQ |-> FALSE, P |-> 0, PC |-> 0, SP |-> 0,
             due |-> FALSE, deferred |-> FALSE, cpu |-> << >>]

Registers(c) == [A |-> c.A, X |-> c.X, Y |-> c.Y, PC |-> c.PC, SP |-> c.SP, P |-> c.P,
                 cycle_count |-> c.cycle_count, IRQ_pending |-> c.IRQ_pending,
                 NMI_pending |-> c.NMI_pending]
Did(op) == [op |-> op, before |-> << >>]

\* The history of pushes: the interrupt service, BRK, JSR, PHA and PHP open a
\* frame, RTI, RTS, PLA and PLP close the newest one.
Frame(by, c) == [by |-> by, A |-> c.A, PC |-> c.PC, SP |-> c.SP, P |-> c.P]
Track(fr, opcode, c) ==
    IF opcode \in {\h00, \h20, \h48, \h08}
    THEN <<Frame(CASE opcode = \h00 -> "BRK" [] opcode = \h20 -> "JSR"
                   [] opcode = \h48 -> "PHA" [] OTHER -> "PHP", c)>> \o fr
    ELSE IF opcode \in {\h40, \h60, \h68, \h28} /\ fr # << >> THEN Tail(fr)
    ELSE fr
\* The frame a pulling instruction closes.
NoFrame == [by |-> "none", A |-> 0, PC |-> 0, SP |-> 0, P |-> 0]
Closing(fr, opcode) ==
    IF opcode \in {\h40, \h60, \h68, \h28} /\ fr # << >> THEN Head(fr) ELSE NoFrame

InitQueueVars ==
    /\ qmutex = "free"
    /\ iqmutex = "free"
    /\ tpc = [t \in Threads |-> "idle"]
    /\ targ = [t \in Threads |-> 0]
    /\ tret = [t \in Threads |-> [fn |-> "none", ok |-> FALSE, val |-> 0]]
    /\ tsnap = [t \in Threads |-> queue_init]
    /\ accepted = << >>
    /\ delivered = << >>
    /\ offered = 0
    /\ apart = FALSE

\* No thread holds pause_mutex or is inside a pause, resume, clock or key
\* handler; the emulation loop is inside handle_all_opcodes' calls.
NoCtl  == [mutex |-> "free", pc |-> "idle", calls |-> 0]
NoClk  == [frequency |-> 1, cycle_duration |-> 1000]
NoHost == [loop |-> "step"]
InitHostVars ==
    /\ ctl = NoCtl
    /\ clk = NoClk
    /\ host = NoHost

InitCpuVars ==
    /\ epc = "entry"
    /\ handle_nmi = FALSE
    /\ handle_irq = FALSE
    /\ status = "CPU_SUCCESS"
    /\ smp = NoSample
    /\ serviced = "none"
    /\ injSince = {}
    /\ owed = [k \in Kinds |-> 0]
    /\ frames = << >>
    /\ last = Did("init")

\* The host's start-up: cpu_init, the store connected and loaded with a guest
\* image, a line of serial input, cpu_reset.
Init ==
    /\ \E image \in Images, line \in InputLines :
          cpu = cpu_reset([cpu_init(image) EXCEPT
                              !.input_queue = EnqueueAll(@, line)])
    /\ InitCpuVars
    /\ InitQueueVars
    /\ InitHostVars

(***************************************************************************)
(* The emulation thread: handle_all_opcodes calling                        *)
(* cpu_execute_instruction until it returns an error.                      *)
(***************************************************************************)
\* Lines 1600-1608: wait while paused.
PauseWait ==
    /\ epc = "entry"
    /\ ~cpu.paused
    /\ cpu.cycle_count < MaxCycles
    /\ epc' = "sample"
    /\ last' = Did("PauseWait")
    /\ UNCHANGED <<cpu, handle_nmi, handle_irq, status, smp, serviced, injSince, owed, frames>>
    /\ UNCHANGED queueVars
    /\ UNCHANGED hostVars

\* Lines 1610-1625: sample and clear the latches under interrupt_mutex.
SampleInterrupts ==
    /\ epc = "sample"
    /\ LET hn == sample_handle_nmi(cpu)
           hi == sample_handle_irq(cpu)
       IN  /\ handle_nmi' = hn
           /\ handle_irq' = hi
           /\ cpu' = sample_clear(cpu, hn, hi)
           /\ epc' = IF hn \/ hi THEN "service" ELSE "execute"
    /\ LET due == smp.deferred /\ serviced # "IRQ"
       IN  smp' = [NMI |-> cpu.NMI_pending, IRQ |-> cpu.IRQ_pending, P |-> cpu.P,
                   PC |-> cpu.PC, SP |-> cpu.SP,
                   due |-> due,
                   cpu |-> cpu,
                   deferred |-> due \/ (cpu.IRQ_pending /\ ~cpu.NMI_pending /\
                                        get_flag(cpu, FLAG_INTERRUPT) = 1)]
    /\ serviced' = "none"
    /\ injSince' = {}
    /\ last' = Did("SampleInterrupts")
    /\ UNCHANGED <<status, owed, frames>>
    /\ UNCHANGED queueVars
    /\ UNCHANGED hostVars

\* Lines 1627-1652: the service sequence.
ServiceInterrupt ==
    /\ epc = "service"
    /\ cpu' = service_interrupt(cpu, handle_nmi, handle_irq)
    /\ serviced' = IF handle_nmi THEN "NMI" ELSE "IRQ"
    /\ owed' = [owed EXCEPT ![IF handle_nmi THEN "NMI" ELSE "IRQ"] = @ - 1]
    /\ frames' = <<Frame("interrupt", cpu)>> \o frames
    /\ epc' = "execute"
    /\ last' = Did("ServiceInterrupt")
    /\ UNCHANGED <<handle_nmi, handle_irq, status, smp, injSince>>
    /\ UNCHANGED queueVars
    /\ UNCHANGED hostVars

\* Lines 1654-1691: clock_wait_next_cycle, fetch, dispatch.
ExecuteInstruction ==
    /\ epc = "execute"
    /\ bus_read(cpu.mem, cpu.PC) \in Executable \cup ((0 .. 255) \ OpcodeTable)
    /\ LET r == fetch_and_execute(cpu)
       IN  /\ cpu' = r.cpu
           /\ status' = r.status
           /\ epc' = IF r.status = "CPU_SUCCESS" THEN "entry" ELSE "done"
    /\ last' = [op |-> "ExecuteInstruction",
                before |-> [opcode |-> bus_read(cpu.mem, cpu.PC), cpu |-> cpu,
                            frame |-> Closing(frames, bus_read(cpu.mem, cpu.PC))]]
    /\ frames' = Track(frames, bus_read(cpu.mem, cpu.PC), cpu)
    /\ UNCHANGED <<handle_nmi, handle_irq, smp, serviced, injSince, owed>>
    /\ UNCHANGED queueVars
    /\ UNCHANGED hostVars

(***************************************************************************)
(* Host threads acting on the CPU.                                         *)
(***************************************************************************)
inject_IRQ(c) == [c EXCEPT !.IRQ_pending = TRUE]
inject_NMI(c) == [c EXCEPT !.NMI_pending = TRUE]

Inject(kind, latched, c) ==
    /\ latched \/ owed[kind] < MaxInject
    /\ cpu' = c
    /\ owed' = IF latched THEN owed ELSE [owed EXCEPT ![kind] = @ + 1]
    /\ injSince' = injSince \cup {kind}
    /\ UNCHANGED <<epc, handle_nmi, handle_irq, status, smp, serviced, frames>>
    /\ UNCHANGED queueVars
    /\ UNCHANGED hostVars

cpu_inject_IRQ ==
    /\ Inject("IRQ", cpu.IRQ_pending, inject_IRQ(cpu))
    /\ last' = Did("cpu_inject_IRQ")

cpu_inject_NMI ==
    /\ Inject("NMI", cpu.NMI_pending, inject_NMI(cpu))
    /\ last' = Did("cpu_inject_NMI")

\* cpu_reset, called while the emulation thread is not inside a step (the
\* contract of reset); the host then runs the program again.
Reset ==
    /\ epc \in {"entry", "done"}
    /\ last.op # "cpu_reset"
    /\ cpu' = cpu_reset(cpu)
    /\ epc' = "entry"
    /\ status' = "CPU_SUCCESS"
    /\ smp' = NoSample
    /\ serviced' = "none"
    /\ injSince' = {}
    /\ owed' = [k \in Kinds |-> 0]
    /\ frames' = << >>
    /\ last' = [op |-> "cpu_reset", before |-> Registers(cpu)]
    /\ UNCHANGED <<handle_nmi, handle_irq>>
    /\ UNCHANGED queueVars
    /\ UNCHANGED hostVars

Next ==
    \/ PauseWait
    \/ SampleInterrupts
    \/ ServiceInterrupt
    \/ ExecuteInstruction
    \/ cpu_inject_IRQ
    \/ cpu_inject_NMI
    \/ Reset

Spec == Init /\ [][Next]_vars

(***************************************************************************)
(* SpecStep: the emulation thread on programs that write the output port,  *)
(* build a return frame by hand and use BRK, PHP, PLP, RTI, while the      *)
(* serial output thread drains the output queue and interrupts arrive.     *)
(***************************************************************************)
InitStep ==
    /\ \E case \in StepCases :
          cpu = cpu_reset([cpu_init(case[1]) EXCEPT
                              !.input_queue = EnqueueAll(@, case[2])])
    /\ InitCpuVars
    /\ InitQueueVars
    /\ InitHostVars

\* serial_output_thread: one successful queue_dequeue(&cpu->output_queue, ...).
OutputDrain ==
    /\ ~queue_empty(cpu.output_queue)
    /\ cpu' = [cpu EXCEPT !.output_queue = queue_dequeue(@).q]
    /\ last' = Did("serial_output_thread")
    /\ UNCHANGED <<epc, handle_nmi, handle_irq, status, smp, serviced, injSince, owed, frames>>
    /\ UNCHANGED queueVars
    /\ UNCHANGED hostVars

NextStep ==
    \/ PauseWait
    \/ SampleInterrupts
    \/ ServiceInterrupt
    \/ ExecuteInstruction
    \/ cpu_inject_IRQ
    \/ cpu_inject_NMI
    \/ OutputDrain

SpecStep == InitStep /\ [][NextStep]_vars

(***************************************************************************)
(* SpecQueue: host threads on cpu->input_queue.  "producer" is the serial  *)
(* input thread (queue_enqueue), "consumer" takes bytes (queue_dequeue, or *)
(* cpu_read(INPUT_ADDR), which wraps it in input_queue_mutex), "other"     *)
(* calls any of the four queue functions.  Each call is the lock, the      *)
(* steps of its critical section, and the unlock; a thread's locals last   *)
(* for the call.                                                           *)
(***************************************************************************)
NoReturn == [fn |-> "none", ok |-> FALSE, val |-> 0]

InitQueue ==
    /\ cpu = cpu_write(cpu_reset(cpu_init(ImageLoop)), INPUT_ADDR, BackingByte)
    /\ InitCpuVars
    /\ InitQueueVars
    /\ InitHostVars

KeepCpuVars ==
    /\ UNCHANGED <<epc, handle_nmi, handle_irq, status, smp, serviced, injSince, owed, frames, last>>
    /\ UNCHANGED hostVars

\* pthread_mutex_lock(&q->mutex) at the head of each queue function.
Lock(t, to) ==
    /\ qmutex = "free"
    /\ qmutex' = t
    /\ tpc' = [tpc EXCEPT ![t] = to]
    /\ tsnap' = [tsnap EXCEPT ![t] = cpu.input_queue]
    /\ KeepCpuVars

InCall(t, at, to) ==
    /\ tpc[t] = at
    /\ qmutex = t
    /\ tpc' = [tpc EXCEPT ![t] = to]
    /\ KeepCpuVars

SetQueue(q) == cpu' = [cpu EXCEPT !.input_queue = q]
Return(t, fn, ok, val) == tret' = [tret EXCEPT ![t] = [fn |-> fn, ok |-> ok, val |-> val]]

\* The serial input thread offers the bytes 0x41, 0x42, ... in this order.
NextByte == \h41 + offered

EnqueueLock(t) ==
    /\ t \in {"producer", "other"}
    /\ tpc[t] = "idle"
    /\ offered < MaxEnq
    /\ Lock(t, "enq_test")
    /\ targ' = [targ EXCEPT ![t] = NextByte]
    /\ offered' = offered + 1
    /\ apart' = (apart \/ t = "other")
    /\ UNCHANGED <<cpu, iqmutex, tret, accepted, delivered>>

EnqueueFull(t) ==
    /\ queue_full(cpu.input_queue)
    /\ InCall(t, "enq_test", "unlock")
    /\ Return(t, "queue_enqueue", FALSE, 0)
    /\ UNCHANGED <<cpu, qmutex, iqmutex, targ, tsnap, accepted, delivered, offered, apart>>

EnqueueStore(t) ==
    /\ ~queue_full(cpu.input_queue)
    /\ InCall(t, "enq_test", "enq_count")
    /\ SetQueue(enqueue_store(cpu.input_queue, targ[t]))
    /\ UNCHANGED <<qmutex, iqmutex, targ, tret, tsnap, accepted, delivered, offered, apart>>

EnqueueCount(t) ==
    /\ InCall(t, "enq_count", "unlock")
    /\ SetQueue(enqueue_count(cpu.input_queue))
    /\ Return(t, "queue_enqueue", TRUE, 0)
    /\ accepted' = Append(accepted, targ[t])
    /\ UNCHANGED <<qmutex, iqmutex, targ, tsnap, delivered, offered, apart>>

DequeueLock(t) ==
    /\ \/ t \in {"consumer", "other"} /\ tpc[t] = "idle"
       \/ tpc[t] = "rd_call"
    /\ Lock(t, "deq_test")
    /\ apart' = (apart \/ t = "other")
    /\ UNCHANGED <<cpu, iqmutex, targ, tret, accepted, delivered, offered>>

DequeueEmpty(t) ==
    /\ queue_empty(cpu.input_queue)
    /\ InCall(t, "deq_test", "unlock")
    /\ Return(t, "queue_dequeue", FALSE, 0)
    /\ UNCHANGED <<cpu, qmutex, iqmutex, targ, tsnap, accepted, delivered, offered, apart>>

DequeueLoad(t) ==
    /\ ~queue_empty(cpu.input_queue)
    /\ InCall(t, "deq_test", "deq_count")
    /\ LET r == dequeue_load(cpu.input_queue)
       IN  /\ SetQueue(r.q)
           /\ targ' = [targ EXCEPT ![t] = r.byte]
    /\ UNCHANGED <<qmutex, iqmutex, tret, tsnap, accepted, delivered, offered, apart>>

DequeueCount(t) ==
    /\ InCall(t, "deq_count", "unlock")
    /\ SetQueue(dequeue_count(cpu.input_queue))
    /\ Return(t, "queue_dequeue", TRUE, targ[t])
    /\ delivered' = Append(delivered, targ[t])
    /\ UNCHANGED <<qmutex, iqmutex, targ, tsnap, accepted, offered, apart>>

ClearLock(t) ==
    /\ t = "other"
    /\ tpc[t] = "idle"
    /\ Lock(t, "clr_indices")
    /\ apart' = TRUE
    /\ UNCHANGED <<cpu, iqmutex, targ, tret, accepted, delivered, offered>>

ClearIndices(t) ==
    /\ InCall(t, "clr_indices", "clr_count")
    /\ SetQueue(clear_indices(cpu.input_queue))
    /\ UNCHANGED <<qmutex, iqmutex, targ, tret, tsnap, accepted, delivered, offered, apart>>

ClearCount(t) ==
    /\ InCall(t, "clr_count", "unlock")
    /\ SetQueue(clear_count(cpu.input_queue))
    /\ Return(t, "queue_clear", TRUE, 0)
    /\ UNCHANGED <<qmutex, iqmutex, targ, tsnap, accepted, delivered, offered, apart>>

IsEmptyLock(t) ==
    /\ t = "other"
    /\ tpc[t] = "idle"
    /\ Lock(t, "emp_test")
    /\ UNCHANGED <<cpu, iqmutex, targ, tret, accepted, delivered, offered, apart>>

IsEmptyTest(t) ==
    /\ InCall(t, "emp_test", "unlock")
    /\ Return(t, "queue_is_empty", queue_empty(cpu.input_queue), 0)
    /\ UNCHANGED <<cpu, qmutex, iqmutex, targ, tsnap, accepted, delivered, offered, apart>>

\* pthread_mutex_unlock(&q->mutex) and the return to the caller: the host
\* thread, or cpu_read holding input_queue_mutex.
Unlock(t) ==
    /\ tpc[t] = "unlock"
    /\ qmutex = t
    /\ qmutex' = "free"
    /\ IF iqmutex = t
       THEN /\ tpc' = [tpc EXCEPT ![t] = "rd_value"]
            /\ UNCHANGED <<targ, tret, tsnap>>
       ELSE /\ tpc' = [tpc EXCEPT ![t] = "idle"]
            /\ targ' = [targ EXCEPT ![t] = 0]
            /\ tret' = [tret EXCEPT ![t] = NoReturn]
            /\ tsnap' = [tsnap EXCEPT ![t] = queue_init]
    /\ KeepCpuVars
    /\ UNCHANGED <<cpu, iqmutex, accepted, delivered, offered, apart>>

\* cpu_read(cpu, INPUT_ADDR), lines 1437-1448: input_queue_mutex around
\* queue_dequeue; the value returned is the byte, or 0x00.
ReadPortLock(t) ==
    /\ t = "consumer"
    /\ tpc[t] = "idle"
    /\ iqmutex = "free"
    /\ iqmutex' = t
    /\ tpc' = [tpc EXCEPT ![t] = "rd_call"]
    /\ KeepCpuVars
    /\ UNCHANGED <<cpu, qmutex, targ, tret, tsnap, accepted, delivered, offered, apart>>

ReadPortValue(t) ==
    /\ tpc[t] = "rd_value"
    /\ iqmutex = t
    /\ tpc' = [tpc EXCEPT ![t] = "rd_unlock"]
    /\ Return(t, "cpu_read", tret[t].ok, read_port_value(cpu, tret[t]))
    /\ KeepCpuVars
    /\ UNCHANGED <<cpu, qmutex, iqmutex, targ, tsnap, accepted, delivered, offered, apart>>

ReadPortUnlock(t) ==
    /\ tpc[t] = "rd_unlock"
    /\ iqmutex = t
    /\ iqmutex' = "free"
    /\ tpc' = [tpc EXCEPT ![t] = "idle"]
    /\ targ' = [targ EXCEPT ![t] = 0]
    /\ tret' = [tret EXCEPT ![t] = NoReturn]
    /\ tsnap' = [tsnap EXCEPT ![t] = queue_init]
    /\ KeepCpuVars
    /\ UNCHANGED <<cpu, qmutex, accepted, delivered, offered, apart>>

NextQueue ==
    \/ \E t \in Threads : EnqueueLock(t)
    \/ \E t \in Threads : EnqueueFull(t)
    \/ \E t \in Threads : EnqueueStore(t)
    \/ \E t \in Threads : EnqueueCount(t)
    \/ \E t \in Threads : DequeueLock(t)
    \/ \E t \in Threads : DequeueEmpty(t)
    \/ \E t \in Threads : DequeueLoad(t)
    \/ \E t \in Threads : DequeueCount(t)
    \/ \E t \in Threads : ClearLock(t)
    \/ \E t \in Threads : ClearIndices(t)
    \/ \E t \in Threads : ClearCount(t)
    \/ \E t \in Threads : IsEmptyLock(t)
    \/ \E t \in Threads : IsEmptyTest(t)
    \/ \E t \in Threads : Unlock(t)
    \/ \E t \in Threads : ReadPortLock(t)
    \/ \E t \in Threads : ReadPortValue(t)
    \/ \E t \in Threads : ReadPortUnlock(t)

SpecQueue == InitQueue /\ [][NextQueue]_vars

(***************************************************************************)
(* Properties of interrupt servicing and reset, checked under Spec.        *)
(***************************************************************************)
\* The step in progress has sampled the latches; the flag I it began with.
InStep == epc \in {"service", "execute"}
SawI == Bit(smp.P, FLAG_INTERRUPT)
\* The step in progress has run the service sequence and not yet fetched.
Serviced == epc = "execute" /\ serviced # "none"
\* The k-th byte below the stack pointer the step began with.
StackByte(k) == bus_read(cpu.mem, 256 + U8(smp.SP + 256 - k))
Latched(k) == IF k = "NMI" THEN cpu.NMI_pending ELSE cpu.IRQ_pending
BeingServiced(k) == epc = "service" /\ (IF k = "NMI" THEN handle_nmi ELSE handle_irq)

\* C1: a step that begins with both latches set and I clear services only the
\* NMI: it takes the vector at 0xFFFA, clears only the NMI latch and leaves the
\* IRQ latch set for a later step.
C1_NmiOnlyIrqKept ==
    (InStep /\ smp.NMI /\ smp.IRQ /\ SawI = 0) =>
        /\ handle_nmi
        /\ ~handle_irq
        /\ cpu.IRQ_pending
        /\ ("NMI" \notin injSince => ~cpu.NMI_pending)
        /\ (Serviced => serviced = "NMI" /\ cpu.PC = read_vector(cpu, \hFFFA).val)

\* C2: a step that begins with the NMI latch set pushes PC high, PC low and a
\* status byte with B = 0 and U = 1 (SP goes down by 3 modulo 256), loads PC
\* from the vector at 0xFFFA and leaves the NMI latch clear.
C2_NmiPushesStatusWithoutB ==
    (Serviced /\ smp.NMI) =>
        /\ StackByte(0) = Hi(smp.PC)
        /\ StackByte(1) = Lo(smp.PC)
        /\ Bit(StackByte(2), FLAG_BREAK) = 0
        /\ Bit(StackByte(2), FLAG_UNUSED) = 1
        /\ cpu.SP = U8(smp.SP + 256 - 3)
        /\ cpu.PC = read_vector(cpu, \hFFFA).val
        /\ ("NMI" \notin injSince => ~cpu.NMI_pending)

\* C3: after the service sequence of an NMI or of an IRQ, before the first
\* instruction of the handler is fetched, the flag I is set.
C3_ServiceSetsI == Serviced => get_flag(cpu, FLAG_INTERRUPT) = 1

\* C4: a step that begins with IRQ latched, NMI clear and I set pushes nothing,
\* loads no vector and leaves the IRQ latched; the first later step that begins
\* with I clear services that IRQ through the vector at 0xFFFE.
C4_MaskedIrqServicedLater ==
    /\ (InStep /\ smp.IRQ /\ ~smp.NMI /\ SawI = 1) =>
           /\ epc = "execute"
           /\ serviced = "none"
           /\ ~handle_irq
           /\ cpu.IRQ_pending
           /\ cpu.SP = smp.SP
           /\ cpu.PC = smp.PC
    /\ (InStep /\ smp.due /\ SawI = 0) =>
           /\ handle_irq
           /\ (Serviced => serviced = "IRQ" /\ cpu.PC = read_vector(cpu, \hFFFE).val)

\* C5: injections of a kind made between two samplings coalesce into one
\* interrupt that is serviced exactly once: the interrupts owed to the guest are
\* those latched or in service, and the step that sees a latch it may take
\* takes it.
C5_InjectionsServicedOnce ==
    /\ \A k \in Kinds :
           owed[k] = (IF Latched(k) THEN 1 ELSE 0) + (IF BeingServiced(k) THEN 1 ELSE 0)
    /\ (InStep /\ smp.NMI) => handle_nmi
    /\ (InStep /\ smp.IRQ /\ ~smp.NMI /\ SawI = 0) => handle_irq
    /\ (Serviced /\ serviced = "NMI") => smp.NMI
    /\ (Serviced /\ serviced = "IRQ") => smp.IRQ

\* C6: right after cpu_reset, from any prior state, A = X = Y = 0, SP = 0xFD,
\* P = 0x24 (only I and U set), PC = mem16(0xFFFC), the cycle counter is 0 and
\* both interrupt latches are clear.
C6_ResetState ==
    last.op = "cpu_reset" =>
        /\ cpu.A = 0 /\ cpu.X = 0 /\ cpu.Y = 0
        /\ cpu.SP = \hFD
        /\ cpu.P = \h24
        /\ cpu.PC = Word(bus_read(cpu.mem, \hFFFC), bus_read(cpu.mem, \hFFFD))
        /\ cpu.cycle_count = 0
        /\ ~cpu.IRQ_pending
        /\ ~cpu.NMI_pending

(***************************************************************************)
(* Properties of the byte queue and the input port, checked under          *)
(* SpecQueue.                                                              *)
(***************************************************************************)
IsPrefix(s, t) == Len(s) <= Len(t) /\ SubSeq(t, 1, Len(s)) = s
\* Thread t has finished the body of a call of fn and still holds the mutex.
AtReturn(t, fn) == tpc[t] = "unlock" /\ qmutex = t /\ tret[t].fn = fn

\* C7: with one thread enqueuing and one thread dequeuing (no queue_clear, no
\* third party), the bytes dequeued are a prefix of the bytes accepted, and the
\* accepted bytes not yet dequeued are exactly the queue's contents, in order.
C7_DequeuedPrefixOfAccepted ==
    ~apart =>
        /\ IsPrefix(delivered, accepted)
        /\ (qmutex = "free" => accepted = delivered \o Contents(cpu.input_queue))

\* The producer has filled the queue past its end (the slots are reused) while
\* the consumer has taken at least two bytes and is still behind.
C7_ConsumerBehindWrappedProducer ==
    /\ ~apart
    /\ Len(accepted) > QUEUE_SIZE
    /\ Len(delivered) >= 2
    /\ Len(delivered) < Len(accepted)

\* C8: under any interleaving of queue_enqueue, queue_dequeue, queue_clear and
\* queue_is_empty, count is within 0..QUEUE_SIZE, head and tail are within
\* 0..QUEUE_SIZE-1, and whenever no thread is inside a critical section
\* tail = (head + count) mod QUEUE_SIZE.
C8_QueueShape ==
    LET q == cpu.input_queue
    IN  /\ q.count \in 0 .. QUEUE_SIZE
        /\ q.head \in QIndex
        /\ q.tail \in QIndex
        /\ (qmutex = "free" => q.tail = (q.head + q.count) % QUEUE_SIZE)

\* A full queue whose head is not slot 0, after dequeues and a queue_clear.
C8_FullWrappedQueue ==
    /\ qmutex = "free"
    /\ cpu.input_queue.count = QUEUE_SIZE
    /\ cpu.input_queue.head # 0
    /\ delivered # << >>
    /\ apart

\* C9: queue_enqueue on a full queue returns false and changes neither head,
\* tail, count nor any stored byte; queue_dequeue on an empty queue returns
\* false, changes nothing, and never waits inside the call.
C9_FullAndEmptyAreRefused ==
    \A t \in Threads :
        /\ (AtReturn(t, "queue_enqueue") /\ tsnap[t].count = QUEUE_SIZE) =>
               ~tret[t].ok /\ cpu.input_queue = tsnap[t]
        /\ (AtReturn(t, "queue_dequeue") /\ tsnap[t].count = 0) =>
               ~tret[t].ok /\ cpu.input_queue = tsnap[t]
        /\ (tpc[t] = "deq_test" /\ qmutex = t) =>
               ENABLED (DequeueEmpty(t) \/ DequeueLoad(t))

\* A queue_enqueue that found the queue full and is returning false.
C9_EnqueueRefusedOnFull ==
    \E t \in Threads :
        /\ AtReturn(t, "queue_enqueue")
        /\ ~tret[t].ok
        /\ tsnap[t].count = QUEUE_SIZE
        /\ Len(accepted) >= QUEUE_SIZE

\* C10: cpu_read(INPUT_ADDR) takes the oldest byte off a non-empty input queue
\* and returns it; on an empty queue it returns 0x00 and the queue stays empty;
\* the value is never the byte the store holds at INPUT_ADDR.
C10_InputPortReadsQueue ==
    \A t \in Threads :
        /\ (AtReturn(t, "queue_dequeue") /\ iqmutex = t) =>
               Contents(cpu.input_queue) =
                   IF tsnap[t].count = 0 THEN << >> ELSE Tail(Contents(tsnap[t]))
        /\ tpc[t] = "rd_unlock" =>
               /\ tret[t].fn = "cpu_read"
               /\ tret[t].val = IF tsnap[t].count = 0 THEN 0
                                ELSE tsnap[t].data[tsnap[t].head]
               /\ bus_read(cpu.mem, INPUT_ADDR) = BackingByte
               /\ tret[t].val # BackingByte

\* cpu_read(INPUT_ADDR) returning the second byte typed, with another byte
\* stored at the port's address.
C10_PortDeliversSecondByte ==
    /\ tpc["consumer"] = "rd_unlock"
    /\ tret["consumer"].ok
    /\ tret["consumer"].val = \h42
    /\ delivered = <<\h41, \h42>>
    /\ bus_read(cpu.mem, INPUT_ADDR) = BackingByte

(***************************************************************************)
(* Properties of single instructions, checked under SpecStep.              *)
(***************************************************************************)
\* The last action fetched and executed opcode op; the cpu_6502_t it found.
Ran(op) == last.op = "ExecuteInstruction" /\ last.before.opcode = op
Pre == last.before.cpu
Operand16 == Word(bus_read(Pre.mem, U16(Pre.PC + 1)), bus_read(Pre.mem, U16(Pre.PC + 2)))
WroteOutputPort == Ran(\h8D) /\ Operand16 = OUTPUT_ADDR
\* The k-th byte below the stack pointer the instruction found.
Pushed(k) == bus_read(cpu.mem, 256 + U8(Pre.SP + 256 - k))

\* C11: a write of b to OUTPUT_ADDR appends b to the output queue and changes
\* no stored byte: the byte at OUTPUT_ADDR and every other byte keep their
\* values.
C11_PortWriteOnlyEnqueues ==
    WroteOutputPort =>
        /\ cpu.mem = Pre.mem
        /\ (Pre.output_queue.count < QUEUE_SIZE =>
               Contents(cpu.output_queue) = Append(Contents(Pre.output_queue), Pre.A))

\* A second write of 0x80 to the port, the byte stored at its address intact.
C11_SecondByteWritten ==
    /\ WroteOutputPort
    /\ Contents(cpu.output_queue) = <<\h80, \h80>>
    /\ bus_read(cpu.mem, OUTPUT_ADDR) = BackingByte

\* C12: a guest write to OUTPUT_ADDR with the output queue full is dropped:
\* queue, memory and registers are as before (PC past the instruction), and the
\* step returns success and the emulation goes on.
C12_FullOutputDropsWrite ==
    (WroteOutputPort /\ Pre.output_queue.count = QUEUE_SIZE) =>
        /\ cpu.output_queue = Pre.output_queue
        /\ cpu.mem = Pre.mem
        /\ cpu.A = Pre.A /\ cpu.X = Pre.X /\ cpu.Y = Pre.Y
        /\ cpu.SP = Pre.SP /\ cpu.P = Pre.P
        /\ cpu.PC = U16(Pre.PC + 3)
        /\ status = "CPU_SUCCESS"
        /\ epc = "entry"

\* A write of 0x80 to the port that found the output queue full.
C12_WriteFoundQueueFull ==
    /\ WroteOutputPort
    /\ Pre.A = \h80
    /\ Pre.output_queue.count = QUEUE_SIZE
    /\ status = "CPU_SUCCESS"

\* C17: a step that fetches an opcode without a table entry (and services no
\* interrupt) returns the invalid-opcode error and changes only PC, which is
\* past the fetched byte; registers, memory, queues, latches and the cycle
\* counter are as before.
C17_InvalidOpcodeChangesOnlyPC ==
    (last.op = "ExecuteInstruction" /\ last.before.opcode \notin OpcodeTable
         /\ serviced = "none") =>
        /\ status = "CPU_ERROR_INVALID_OPCODE"
        /\ cpu = [Pre EXCEPT !.PC = U16(@ + 1)]

\* C19: BRK at address a pushes a + 2 (high, then low), then P | 0x30, sets I
\* and loads PC from the vector at 0xFFFE.
C19_BrkPushesStatusWithBU ==
    Ran(\h00) =>
        /\ Pushed(0) = Hi(U16(Pre.PC + 2))
        /\ Pushed(1) = Lo(U16(Pre.PC + 2))
        /\ Pushed(2) = SetBit(SetBit(Pre.P, FLAG_BREAK), FLAG_UNUSED)
        /\ cpu.SP = U8(Pre.SP + 256 - 3)
        /\ get_flag(cpu, FLAG_INTERRUPT) = 1
        /\ cpu.PC = Word(bus_read(cpu.mem, \hFFFE), bus_read(cpu.mem, \hFFFF))

\* C20: every status byte pushed by PHP, BRK or interrupt service has bit 5
\* set, and after PLP or RTI the register P has bit 5 set and bit 4 clear.
C20_StatusBitsFiveAndFour ==
    /\ Ran(\h08) => Bit(Pushed(0), FLAG_UNUSED) = 1
    /\ Ran(\h00) => Bit(Pushed(2), FLAG_UNUSED) = 1
    /\ Serviced => Bit(StackByte(2), FLAG_UNUSED) = 1
    /\ (Ran(\h28) \/ Ran(\h40)) =>
           Bit(cpu.P, FLAG_UNUSED) = 1 /\ Bit(cpu.P, FLAG_BREAK) = 0

(***************************************************************************)
(* Pause and resume: the emulation thread at the head of                   *)
(* cpu_execute_instruction, and a thread calling cpu_pause and cpu_resume. *)
(***************************************************************************)
\* Calls of cpu_pause and cpu_resume the controlling thread makes.
MaxPause == 3

\* The step's places before it leaves the pause handling.
Gate == {"entry", "locked", "waiting", "woken"}

\* A broadcast that wakes nobody.
pause_cond_silent(e) == e
\* pthread_cond_broadcast(&cpu->pause_cond): a thread waiting on the
\* condition leaves the wait and goes for the mutex.
pause_cond_broadcast(e) == IF e = "waiting" THEN "woken" ELSE e

KeepStep == UNCHANGED <<handle_nmi, handle_irq, status, smp, serviced, injSince, owed, frames>>

InitPause ==
    /\ cpu = cpu_reset(cpu_init(ImageLoop))
    /\ InitCpuVars
    /\ InitQueueVars
    /\ InitHostVars

\* Line 1601: pthread_mutex_lock(&cpu->pause_mutex), and on return from
\* pthread_cond_wait, which takes the mutex again.
PauseLock ==
    /\ epc \in {"entry", "woken"}
    /\ epc = "entry" => cpu.cycle_count < MaxCycles
    /\ ctl.mutex = "free"
    /\ ctl' = [ctl EXCEPT !.mutex = "emu"]
    /\ epc' = "locked"
    /\ last' = Did("pthread_mutex_lock")
    /\ UNCHANGED cpu
    /\ KeepStep
    /\ UNCHANGED <<queueVars, clk, host>>

\* Lines 1603-1608: while (cpu->paused) pthread_cond_wait, which gives the
\* mutex up; else pthread_mutex_unlock.
PauseCheck ==
    /\ epc = "locked"
    /\ epc' = IF cpu.paused THEN "waiting" ELSE "sample"
    /\ ctl' = [ctl EXCEPT !.mutex = "free"]
    /\ last' = Did(IF cpu.paused THEN "pthread_cond_wait" ELSE "PauseWait")
    /\ UNCHANGED cpu
    /\ KeepStep
    /\ UNCHANGED <<queueVars, clk, host>>

\* pthread_cond_wait may return without a signal.
SpuriousWake ==
    /\ epc = "waiting"
    /\ epc' = "woken"
    /\ last' = Did("spurious wakeup")
    /\ UNCHANGED <<cpu, ctl>>
    /\ KeepStep
    /\ UNCHANGED <<queueVars, clk, host>>

\* cpu_pause and cpu_resume, line 1: pthread_mutex_lock(&cpu->pause_mutex).
CanCall == ctl.pc = "idle" /\ ctl.calls < MaxPause /\ ctl.mutex = "free"
Called(fn) == [mutex |-> "ctl", pc |-> fn, calls |-> ctl.calls + 1]

cpu_pause_lock ==
    /\ CanCall
    /\ ctl' = Called("cpu_pause")
    /\ UNCHANGED <<cpu, epc, last>>
    /\ KeepStep
    /\ UNCHANGED <<queueVars, clk, host>>

cpu_resume_lock ==
    /\ CanCall
    /\ ctl' = Called("cpu_resume")
    /\ UNCHANGED <<cpu, epc, last>>
    /\ KeepStep
    /\ UNCHANGED <<queueVars, clk, host>>

\* cpu_pause, lines 1757-1759: set the flag, unlock.
cpu_pause ==
    /\ ctl.pc = "cpu_pause"
    /\ cpu' = [cpu EXCEPT !.paused = TRUE]
    /\ ctl' = [ctl EXCEPT !.mutex = "free", !.pc = "idle"]
    /\ last' = Did("cpu_pause")
    /\ UNCHANGED epc
    /\ KeepStep
    /\ UNCHANGED <<queueVars, clk, host>>

\* cpu_resume, lines 1768-1771: clear the flag, broadcast, unlock.
cpu_resume ==
    /\ ctl.pc = "cpu_resume"
    /\ cpu' = [cpu EXCEPT !.paused = FALSE]
    /\ epc' = pause_cond_broadcast(epc)
    /\ ctl' = [ctl EXCEPT !.mutex = "free", !.pc = "idle"]
    /\ last' = Did("cpu_resume")
    /\ KeepStep
    /\ UNCHANGED <<queueVars, clk, host>>

NextPause ==
    \/ PauseLock
    \/ PauseCheck
    \/ SpuriousWake
    \/ SampleInterrupts
    \/ ServiceInterrupt
    \/ ExecuteInstruction
    \/ cpu_inject_IRQ
    \/ cpu_pause_lock
    \/ cpu_pause
    \/ cpu_resume_lock
    \/ cpu_resume

\* Lines 1627-1691 take no lock and wait for nothing: a step past the
\* sampling goes on to the service sequence and to the fetch and execution.
StepOn == epc \in {"service", "execute"} /\ epc' \in {"execute", "entry", "done"}

\* Every thread that can take a step is scheduled; no thread is obliged to
\* call cpu_pause, cpu_resume or cpu_inject_IRQ, and no wakeup without a
\* signal is owed.
SpecPause ==
    /\ InitPause
    /\ [][NextPause]_vars
    /\ WF_vars(PauseLock)
    /\ WF_vars(PauseCheck)
    /\ WF_vars(SampleInterrupts)
    /\ WF_epc(StepOn)
    /\ WF_vars(cpu_pause)
    /\ WF_vars(cpu_resume)

MaxSet == 2

\* Hz, and 1.0 / frequency in milliseconds.
Frequencies == {1, 2, 4}
cycle_duration(frequency) == 1000 \div frequency

\* wpc, n, expected_time: clock_wait_next_cycle's place and locals; spc, arg:
\* cpu_set_clock_frequency's place and argument; sets: calls made; ideal: the
\* counter if every reset and every increment had taken effect in the order
\* they ended.
InitClock ==
    /\ cpu = cpu_reset(cpu_init(ImageLoop))
    /\ clk = [frequency |-> 1, cycle_duration |-> cycle_duration(1), elapsed_time |-> 0,
              wpc |-> "idle", n |-> 0, expected_time |-> 0,
              spc |-> "idle", arg |-> 1, sets |-> 0, ideal |-> 0]
    /\ ctl = NoCtl
    /\ host = NoHost
    /\ InitCpuVars
    /\ InitQueueVars

KeepClock == UNCHANGED <<epc, handle_nmi, handle_irq, status, smp, serviced, injSince,
                         owed, frames, queueVars, host>>

\* Line 85, left operand: clock->cycle_count + 1.
ClockReadCount ==
    /\ clk.wpc = "idle"
    /\ cpu.cycle_count < MaxCycles
    /\ clk' = [clk EXCEPT !.wpc = "count_read", !.n = cpu.cycle_count]
    /\ last' = Did("clock_wait_next_cycle")
    /\ UNCHANGED <<cpu, ctl>>
    /\ KeepClock

\* Line 85, right operand: * clock->cycle_duration.
ClockReadDuration ==
    /\ clk.wpc = "count_read"
    /\ clk' = [clk EXCEPT !.wpc = "slept",
                          !.expected_time = (clk.n + 1) * clk.cycle_duration]
    /\ last' = Did("ClockReadDuration")
    /\ UNCHANGED <<cpu, ctl>>
    /\ KeepClock

\* Line 130: clock->elapsed_time = expected_time.
ClockElapsed ==
    /\ clk.wpc = "slept"
    /\ clk' = [clk EXCEPT !.wpc = "elapsed", !.elapsed_time = clk.expected_time]
    /\ last' = Did("ClockElapsed")
    /\ UNCHANGED <<cpu, ctl>>
    /\ KeepClock

\* Line 131: clock->cycle_count++, the load.
ClockLoadCount ==
    /\ clk.wpc = "elapsed"
    /\ clk' = [clk EXCEPT !.wpc = "loaded", !.n = cpu.cycle_count]
    /\ last' = Did("ClockLoadCount")
    /\ UNCHANGED <<cpu, ctl>>
    /\ KeepClock

\* Line 131: clock->cycle_count++, the store.
ClockStoreCount ==
    /\ clk.wpc = "loaded"
    /\ cpu' = [cpu EXCEPT !.cycle_count = clk.n + 1]
    /\ clk' = [clk EXCEPT !.wpc = "idle", !.ideal = @ + 1]
    /\ last' = Did("ClockStoreCount")
    /\ UNCHANGED ctl
    /\ KeepClock

\* cpu_set_clock_frequency, lines 1696-1699: frequency > 0, lock pause_mutex.
SetClockLock ==
    /\ clk.spc = "idle"
    /\ clk.sets < MaxSet
    /\ ctl.mutex = "free"
    /\ \E f \in Frequencies :
          clk' = [clk EXCEPT !.spc = "locked", !.arg = f, !.sets = @ + 1]
    /\ ctl' = [ctl EXCEPT !.mutex = "set"]
    /\ last' = Did("cpu_set_clock_frequency")
    /\ UNCHANGED cpu
    /\ KeepClock

\* Line 1700: cpu->clock.frequency = frequency.
SetClockFrequency ==
    /\ clk.spc = "locked"
    /\ clk' = [clk EXCEPT !.spc = "frequency", !.frequency = clk.arg]
    /\ last' = Did("SetClockFrequency")
    /\ UNCHANGED <<cpu, ctl>>
    /\ KeepClock

\* Line 1701: cpu->clock.cycle_duration = 1.0 / frequency.
SetClockDuration ==
    /\ clk.spc = "frequency"
    /\ clk' = [clk EXCEPT !.spc = "duration",
                          !.cycle_duration = cycle_duration(clk.arg)]
    /\ last' = Did("SetClockDuration")
    /\ UNCHANGED <<cpu, ctl>>
    /\ KeepClock

\* Lines 1702-1703: clock_reset (cpu_clock.c 135-149), unlock.
clock_reset ==
    /\ clk.spc = "duration"
    /\ cpu' = [cpu EXCEPT !.cycle_count = 0]
    /\ clk' = [clk EXCEPT !.spc = "idle", !.elapsed_time = 0, !.ideal = 0]
    /\ ctl' = [ctl EXCEPT !.mutex = "free"]
    /\ last' = Did("clock_reset")
    /\ KeepClock

NextClock ==
    \/ ClockReadCount
    \/ ClockReadDuration
    \/ ClockElapsed
    \/ ClockLoadCount
    \/ ClockStoreCount
    \/ SetClockLock
    \/ SetClockFrequency
    \/ SetClockDuration
    \/ clock_reset

SpecClock == InitClock /\ [][NextClock]_vars

\* C15: with cpu_set_clock_frequency running at any time beside
\* clock_wait_next_cycle, no update of the cycle counter is lost or
\* overwritten: the counter is what the resets and increments made so far
\* give when each takes effect whole.
C15_ClockUpdatesNotLost == cpu.cycle_count = clk.ideal

(***************************************************************************)
(* The host program, main.c: the emulation thread's loop, the key handlers *)
(* of the input thread and the rendering thread, over the volatile flags.  *)
(* The handlers take the curses mutex `lock`, which the emulation loop     *)
(* never takes; a handler is one step.  No interrupt is injected here.     *)
(***************************************************************************)
\* What prompt_set_pc may store.
NewPCs == {\h8003}

\* load_binary, lines 267-294: the file over the store, the reset vector,
\* cpu_reset, queue_clear of the output queue.
load_binary(c, image) ==
    LET loaded == [c EXCEPT !.mem = NonZero(image @@ c.mem)]
    IN  [cpu_reset(loaded) EXCEPT !.output_queue = queue_clear(@)]

\* A loop that goes on whatever the step returned.
step_never_failed(st) == FALSE
\* Line 881: cpu_execute_instruction(cpu, NULL) != CPU_SUCCESS.
step_failed(st) == st # "CPU_SUCCESS"

\* History: the operation, the place of the emulation loop and the pause flag
\* it found.
By(op) == [op |-> op,
           before |-> [loop |-> host.loop, emulator_paused |-> host.emulator_paused]]

\* failed (history): a step has returned an error to the loop.
InitHost ==
    /\ cpu = load_binary(cpu_init(ImageOut), ImageOut)
    /\ host = [emulator_paused |-> TRUE, emulator_exit |-> FALSE,
               emulator_reset |-> FALSE, step_mode |-> FALSE,
               step_instruction |-> FALSE, loop |-> "top", failed |-> FALSE]
    /\ ctl = NoCtl
    /\ clk = NoClk
    /\ InitCpuVars
    /\ InitQueueVars

KeepHost == UNCHANGED <<handle_nmi, handle_irq, status, smp, serviced, injSince, owed, frames,
                        queueVars, ctl, clk>>

\* Lines 854-876: the loop test and the reset request.
EmulatorTop ==
    /\ host.loop = "top"
    /\ IF host.emulator_exit
       THEN /\ host' = [host EXCEPT !.loop = "exited"]
            /\ UNCHANGED <<cpu, last>>
       ELSE IF host.emulator_reset
       THEN /\ cpu' = load_binary(cpu, ImageOut)
            /\ host' = [host EXCEPT !.emulator_reset = FALSE, !.emulator_paused = TRUE,
                                    !.step_mode = FALSE, !.loop = "run"]
            /\ last' = By("load_binary")
       ELSE /\ host' = [host EXCEPT !.loop = "run"]
            /\ UNCHANGED <<cpu, last>>
    /\ UNCHANGED epc
    /\ KeepHost

\* Lines 879-881: not paused, or a single step asked for: the call, which
\* passes the pause handling (nothing in main.c sets cpu->paused).
EmulatorCall ==
    /\ host.loop = "run"
    /\ ~host.emulator_paused \/ (host.step_mode /\ host.step_instruction)
    /\ ~cpu.paused
    /\ cpu.cycle_count < MaxCycles
    /\ host' = [host EXCEPT !.loop = "step"]
    /\ epc' = "sample"
    /\ last' = Did("PauseWait")
    /\ UNCHANGED cpu
    /\ KeepHost

\* Lines 879, 926: paused and no step asked for; usleep.
EmulatorSkip ==
    /\ host.loop = "run"
    /\ ~(~host.emulator_paused \/ (host.step_mode /\ host.step_instruction))
    /\ host' = [host EXCEPT !.loop = "top"]
    /\ UNCHANGED <<cpu, epc, last>>
    /\ KeepHost

\* Lines 881-926: the step has returned; on an error set emulator_exit and
\* leave the loop, else the rest of the pass.
EmulatorReturn ==
    /\ host.loop = "step"
    /\ epc \in {"entry", "done"}
    /\ IF step_failed(status)
       THEN /\ host' = [host EXCEPT !.emulator_exit = TRUE, !.loop = "exited",
                                    !.failed = TRUE]
            /\ UNCHANGED cpu
       ELSE /\ host' = [host EXCEPT
                           !.step_instruction = IF host.step_mode THEN FALSE ELSE @,
                           !.loop = "top",
                           !.failed = @ \/ status # "CPU_SUCCESS"]
            /\ cpu' = clock_wait_next_cycle(cpu)
    /\ last' = Did("emulator_loop")
    /\ UNCHANGED epc
    /\ KeepHost

\* serial_input_thread, lines 497-502.
KeyF2 ==
    /\ ~host.emulator_exit
    /\ host' = [host EXCEPT !.emulator_paused = ~@, !.step_mode = FALSE]
    /\ last' = Did("serial_input_thread")
    /\ UNCHANGED <<cpu, epc>>
    /\ KeepHost

\* Lines 503-509 and prompt_load_binary, lines 1208-1211.
KeyF3 ==
    /\ ~host.emulator_exit
    /\ cpu' = load_binary(cpu, ImageOut)
    /\ last' = By("prompt_load_binary")
    /\ UNCHANGED <<host, epc>>
    /\ KeepHost

\* Lines 517-521.
KeyF5 ==
    /\ ~host.emulator_exit
    /\ ~host.emulator_reset
    /\ host' = [host EXCEPT !.emulator_reset = TRUE]
    /\ last' = Did("serial_input_thread")
    /\ UNCHANGED <<cpu, epc>>
    /\ KeepHost

\* Lines 522-528 and prompt_set_pc, lines 1426-1432.
KeyF6 ==
    /\ ~host.emulator_exit
    /\ \E new_pc \in NewPCs : cpu' = [cpu EXCEPT !.PC = new_pc]
    /\ last' = By("prompt_set_pc")
    /\ UNCHANGED <<host, epc>>
    /\ KeepHost

\* Lines 529-535.
KeyF7 ==
    /\ ~host.emulator_exit
    /\ host' = [host EXCEPT !.emulator_paused = TRUE, !.step_mode = TRUE,
                            !.step_instruction = TRUE]
    /\ last' = Did("serial_input_thread")
    /\ UNCHANGED <<cpu, epc>>
    /\ KeepHost

\* Lines 536-539.
KeyF10 ==
    /\ ~host.emulator_exit
    /\ host' = [host EXCEPT !.emulator_exit = TRUE]
    /\ last' = Did("serial_input_thread")
    /\ UNCHANGED <<cpu, epc>>
    /\ KeepHost

\* render_interface, lines 810-823: print_cpu_state reads PC, SP, A, X, Y, P
\* and the cycle counter, and calls cpu_read(cpu, INPUT_ADDR).
print_cpu_state ==
    /\ ~host.emulator_exit
    /\ last.op # "print_cpu_state"
    /\ cpu' = cpu_read(cpu, INPUT_ADDR).cpu
    /\ last' = By("print_cpu_state")
    /\ UNCHANGED <<host, epc>>
    /\ KeepHost

NextHost ==
    \/ EmulatorTop
    \/ EmulatorCall
    \/ EmulatorSkip
    \/ SampleInterrupts
    \/ ExecuteInstruction
    \/ EmulatorReturn
    \/ KeyF2
    \/ KeyF3
    \/ KeyF5
    \/ KeyF6
    \/ KeyF7
    \/ KeyF10
    \/ print_cpu_state

SpecHost == InitHost /\ [][NextHost]_vars

\* C13: in the host program cpu_reset (also through load_binary) never runs
\* while the emulation thread is inside cpu_execute_instruction.
C13_ResetOutsideStep ==
    last.op \in {"load_binary", "prompt_load_binary"} => last.before.loop # "step"

\* C14: the user-interface threads read the registers (print_cpu_state) or
\* write them (prompt_set_pc) only while the emulation is paused and the
\* emulation thread is not inside a step.
C14_UiTouchesRegistersWhilePaused ==
    last.op \in {"print_cpu_state", "prompt_set_pc"} =>
        last.before.emulator_paused /\ last.before.loop # "step"

\* C18: once a step has returned an error to the emulation loop, the exit
\* flag is set, the loop is left, and the emulation thread enters no further
\* step.
C18_ErrorEndsEmulation ==
    /\ [](host.failed => host.emulator_exit /\ host.loop = "exited")
    /\ [][host.failed =>
              /\ epc' = epc
              /\ last'.op \notin {"PauseWait", "SampleInterrupts", "ExecuteInstruction"}]_vars

\* The loop left after the undocumented opcode $02 was fetched.
C18_LoopLeftOnInvalidOpcode ==
    /\ host.failed
    /\ host.loop = "exited"
    /\ status = "CPU_ERROR_INVALID_OPCODE"

(***************************************************************************)
(* Single instructions: a CPU with registers set as the unit tests set     *)
(* them, a short program in the store, and the emulation thread stepping   *)
(* it until it meets an undocumented opcode.                               *)
(***************************************************************************)
\* Operand and accumulator values: both nibbles below ten, the sign and carry
\* edges of a byte.
OpBytes == {\h00, \h01, \h09, \h10, \h45, \h55, \h7F, \h80, \h99, \hFF}
\* Index register values: no page cross and a page cross from 0x10FF.
OpIndexes == {\h00, \h01}
\* Status registers: each of C, Z, D, V, N set and clear, the value cpu_init
\* sets, and a byte with B set as RTI can pull.
OpStatus == {\h20, \h21, \h22, \h28, \h29, \h34, \h60, \hA0, \hB1, \hE3}
\* Branch operands: forward, backward, the largest and the smallest offset.
OpOffsets == {\h05, \hFB, \h7F, \h80}
BranchOpcodes == {\h10, \h30, \h50, \h70, \h90, \hB0, \hD0, \hF0}

\* ADC #m, SBC #m; ASL, LSR, ROL, ROR on A and, after STA $2000, on $2000;
\* LDA, ASL, STA $10FF,X; BRK; JMP ($20FF), JMP ($2010); JSR $8020 (an RTS);
\* PHA, PLA; PHP, PLP; the eight branches.
OpsPrograms ==
    {<<op, m>> : op \in {\h69, \hE9}, m \in OpBytes}
    \cup {<<op>> : op \in {\h0A, \h4A, \h2A, \h6A, \h00}}
    \cup {<<\h8D, \h00, \h20, op, \h00, \h20>> : op \in {\h0E, \h4E, \h2E, \h6E}}
    \cup {<<op, \hFF, \h10>> : op \in {\hBD, \h1E, \h9D}}
    \cup {<<\h6C, \hFF, \h20>>, <<\h6C, \h10, \h20>>, <<\h20, \h20, \h80>>,
          <<\h48, \h68>>, <<\h08, \h28>>}
BranchPrograms == {<<op, o>> : op \in BranchOpcodes, o \in OpOffsets}
\* Where a program is placed: 0x8000, and for the branches also the two ends
\* of the address space.
OpsPlaced ==
    (OpsPrograms \X {\h8000}) \cup (BranchPrograms \X {\h0010, \h8000, \hFFF0})
OpsData ==
    At(\h10FF, <<\h80, \h42>>) @@ At(\h2000, <<\h12>>) @@ At(\h2010, <<\h78, \h9A>>)
    @@ At(\h20FF, <<\h34>>) @@ At(\h2100, <<\h56>>) @@ At(\h8020, <<\h60>>)
    @@ At(\hA000, <<\h02>>) @@ At(\hFFFE, <<\h00, \hA0>>)
OpsImage(placed) ==
    NonZero(At(placed[2], placed[1] \o <<\h02>>) @@ OpsData)

\* Stack pointers for the programs that push and pull: the value cpu_init
\* sets, and the two from which pushes wrap below 0x00.
OpStacks == {\hFD, \h00, \h01}
StackPrograms == {<<\h00>>, <<\h20, \h20, \h80>>, <<\h48, \h68>>, <<\h08, \h28>>}

InitOps ==
    /\ \E placed \in OpsPlaced, a \in OpBytes, x \in OpIndexes, p \in OpStatus,
          sp \in OpStacks :
          /\ sp # \hFD => placed[1] \in StackPrograms
          /\ cpu = [cpu_init(OpsImage(placed)) EXCEPT
                        !.A = a, !.X = x, !.P = p, !.SP = sp, !.PC = placed[2]]
    /\ InitCpuVars
    /\ InitQueueVars
    /\ InitHostVars

NextOps ==
    \/ PauseWait
    \/ SampleInterrupts
    \/ ExecuteInstruction

SpecOps == InitOps /\ [][NextOps]_vars

(***************************************************************************)
(* Instruction semantics.                                                  *)
(***************************************************************************)
\* The frame the instruction just executed has closed.
Closed == last.before.frame
ArithmeticFlags == {FLAG_CARRY, FLAG_ZERO, FLAG_INTERRUPT, FLAG_DECIMAL,
                    FLAG_OVERFLOW, FLAG_NEGATIVE}
\* The RTI just executed closed an interrupt frame with the stack pointer
\* three below the one the service found.
RtiOfInterrupt ==
    /\ Ran(\h40)
    /\ Closed.by = "interrupt"
    /\ Pre.SP = U8(Closed.SP + 256 - 3)

\* C21: an interrupt serviced at step entry with PC = p, SP = s and status
\* P0, whose handler executes RTI with the stack balanced, leaves PC = p,
\* SP = s and the flags C, Z, I, D, V, N equal to those of P0.
C21_RtiReturnsToInterruptedCode ==
    RtiOfInterrupt =>
        /\ cpu.PC = Closed.PC
        /\ cpu.SP = Closed.SP
        /\ \A f \in ArithmeticFlags : Bit(cpu.P, f) = Bit(Closed.P, f)
\* An NMI handler returns into code that runs with interrupts enabled, having
\* run with I set.
C21_HandlerReturned ==
    /\ RtiOfInterrupt
    /\ get_flag(Pre, FLAG_INTERRUPT) = 1
    /\ get_flag(cpu, FLAG_INTERRUPT) = 0

\* The cycle counter's advance over the instruction just executed.
Charged == cpu.cycle_count - Pre.cycle_count
\* The instruction just executed, begun with X = 0.
Unindexed == fetch_and_execute([Pre EXCEPT !.X = 0]).cpu
\* The operand word and the indexed address lie in different pages.
CrossedX == ~SamePage(Operand16, U16(Operand16 + Pre.X))

\* C22: a successful step adds the opcode's base cost plus any penalty to the
\* cycle counter: LDA $10FF,X with X = 0x01 loads A from 0x1100 and adds 5
\* cycles, the same opcode without a page cross adds 4, BRK adds 7.
C22_StepChargesBaseCost ==
    /\ (Ran(\hBD) /\ CrossedX) =>
           cpu.A = bus_read(Pre.mem, U16(Operand16 + Pre.X)) /\ Charged = 5
    /\ (Ran(\hBD) /\ ~CrossedX) => Charged = 4
    /\ Ran(\h00) => Charged = 7

\* C23: the page-cross cycle is charged exactly when a reading instruction in
\* an indexed mode has its indexed address in another page than the base;
\* stores and read-modify-write instructions such as ASL abs,X never pay it.
C23_PageCrossOnlyForReads ==
    \A op \in {\hBD, \h1E, \h9D} :
        Ran(op) =>
            cpu.cycle_count - Unindexed.cycle_count =
                IF op = \hBD /\ CrossedX THEN 1 ELSE 0

\* Packed BCD.
IsBcd(b) == b \div 16 <= 9 /\ b % 16 <= 9
FromBcd(b) == (b \div 16) * 10 + (b % 16)
ToBcd(n) == (n \div 10) * 16 + (n % 10)
\* The immediate operand, the carry and the decimal flag the instruction found.
Operand8 == bus_read(Pre.mem, U16(Pre.PC + 1))
CarryIn == get_flag(Pre, FLAG_CARRY)
Decimal == get_flag(Pre, FLAG_DECIMAL) = 1
DecimalSum == FromBcd(Pre.A) + FromBcd(Operand8) + CarryIn
DecimalDifference == FromBcd(Pre.A) - FromBcd(Operand8) - (1 - CarryIn)

\* The instruction just executed found D set and packed BCD in A and in its
\* operand.
DecimalCase(op) == Ran(op) /\ Decimal /\ IsBcd(Pre.A) /\ IsBcd(Operand8)

\* C24: with D set, ADC leaves A = BCD((A + M + C) mod 100) and C = 1 exactly
\* when the decimal sum exceeds 99; SBC leaves
\* A = BCD((A - M - (1 - C)) mod 100) and C = 0 exactly when it borrowed.
C24_DecimalArithmetic ==
    /\ DecimalCase(\h69) =>
           /\ cpu.A = ToBcd(DecimalSum % 100)
           /\ get_flag(cpu, FLAG_CARRY) = 1 <=> DecimalSum > 99
    /\ DecimalCase(\hE9) =>
           /\ cpu.A = ToBcd((DecimalDifference + 100) % 100)
           /\ get_flag(cpu, FLAG_CARRY) = 0 <=> DecimalDifference < 0

\* Z and N are those of the byte.
ZeroNegativeOf(byte) ==
    /\ get_flag(cpu, FLAG_ZERO) = 1 <=> byte = 0
    /\ get_flag(cpu, FLAG_NEGATIVE) = 1 <=> byte >= 128
BinarySum == Pre.A + Operand8 + CarryIn
BinaryDifference == Pre.A - Operand8 - (1 - CarryIn)

\* C25: with D clear, ADC leaves A = (A + M + C) mod 256 and C = 1 exactly
\* when the sum exceeds 255; SBC leaves A = (A - M - (1 - C)) mod 256 and
\* C = 1 exactly when there was no borrow; Z and N are those of the new A.
C25_BinaryArithmetic ==
    /\ (Ran(\h69) /\ ~Decimal) =>
           /\ cpu.A = BinarySum % 256
           /\ get_flag(cpu, FLAG_CARRY) = 1 <=> BinarySum > 255
           /\ ZeroNegativeOf(cpu.A)
    /\ (Ran(\hE9) /\ ~Decimal) =>
           /\ cpu.A = (BinaryDifference + 256) % 256
           /\ get_flag(cpu, FLAG_CARRY) = 1 <=> BinaryDifference >= 0
           /\ ZeroNegativeOf(cpu.A)
\* 0x00 - 0x01 with the carry clear: a borrow from the operand and from the
\* carry, the result 0xFE.
C25_SubtractedWithBorrow ==
    /\ Ran(\hE9)
    /\ ~Decimal
    /\ Pre.A = \h00 /\ Operand8 = \h01 /\ CarryIn = 0
    /\ cpu.A = \hFE
    /\ get_flag(cpu, FLAG_CARRY) = 0

\* The flag each branch tests and the value it branches on.
BranchFlag(op) ==
    CASE op \in {\h10, \h30} -> FLAG_NEGATIVE
      [] op \in {\h50, \h70} -> FLAG_OVERFLOW
      [] op \in {\h90, \hB0} -> FLAG_CARRY
      [] op \in {\hD0, \hF0} -> FLAG_ZERO
BranchOn(op) == IF op \in {\h30, \h70, \hB0, \hF0} THEN 1 ELSE 0
Taken(op) == get_flag(Pre, BranchFlag(op)) = BranchOn(op)
Signed(o) == IF o >= 128 THEN o - 256 ELSE o

\* C26: a branch at pc with operand o leaves PC = pc + 2 when its condition is
\* false and PC = (pc + 2 + signed(o)) mod 65536 when it is true; A, X, Y, SP,
\* P and memory are unchanged.
C26_BranchMovesOnlyPC ==
    \A op \in BranchOpcodes :
        Ran(op) =>
            /\ cpu.PC = IF Taken(op)
                        THEN (Pre.PC + 2 + Signed(Operand8) + 65536) % 65536
                        ELSE U16(Pre.PC + 2)
            /\ cpu.A = Pre.A /\ cpu.X = Pre.X /\ cpu.Y = Pre.Y
            /\ cpu.SP = Pre.SP /\ cpu.P = Pre.P
            /\ cpu.mem = Pre.mem
\* A branch at 0x0010 taken backwards past address zero.
C26_BranchWrappedBackwards ==
    /\ \E op \in BranchOpcodes : Ran(op) /\ Taken(op)
    /\ Pre.PC = \h0010
    /\ Operand8 = \h80
    /\ cpu.PC = \hFF92

\* C27: JMP (p) with p = 0xXXFF takes the target's low byte from 0xXXFF and
\* its high byte from 0xXX00; for any other p the target is
\* mem[p] | mem[p + 1] << 8.
C27_IndirectJumpWrapsInPage ==
    Ran(\h6C) =>
        cpu.PC = Word(bus_read(Pre.mem, Operand16),
                      bus_read(Pre.mem, IF Lo(Operand16) = \hFF
                                        THEN Operand16 - \hFF
                                        ELSE U16(Operand16 + 1)))
\* JMP ($20FF) with 0x34 at 0x20FF, 0x12 at 0x2000 and 0x56 at 0x2100.
C27_JumpedThroughPageEnd ==
    /\ Ran(\h6C)
    /\ Operand16 = \h20FF
    /\ cpu.PC = \h1234

\* The byte a shift or rotate found and the byte it left, in A or in memory.
ShiftOld(op) == IF op \in {\h0A, \h4A, \h2A, \h6A} THEN Pre.A
                ELSE bus_read(Pre.mem, Operand16)
ShiftNew(op) == IF op \in {\h0A, \h4A, \h2A, \h6A} THEN cpu.A
                ELSE bus_read(cpu.mem, Operand16)
ShiftsLeft(op) == op \in {\h0A, \h0E, \h2A, \h2E}
Rotates(op) == op \in {\h2A, \h2E, \h6A, \h6E}

\* C28: ASL, LSR, ROL and ROR, on A and on memory, leave in C the bit shifted
\* out; ROL puts the old C in bit 0, ROR in bit 7, ASL and LSR shift in zero;
\* Z and N are those of the result.
C28_ShiftsAndRotates ==
    \A op \in {\h0A, \h4A, \h2A, \h6A, \h0E, \h4E, \h2E, \h6E} :
        Ran(op) =>
            LET old == ShiftOld(op)
                shifted_in == IF Rotates(op) THEN CarryIn ELSE 0
            IN  /\ get_flag(cpu, FLAG_CARRY) = Bit(old, IF ShiftsLeft(op) THEN 7 ELSE 0)
                /\ ShiftNew(op) = IF ShiftsLeft(op)
                                  THEN ((old * 2) % 256) + shifted_in
                                  ELSE (old \div 2) + 128 * shifted_in
                /\ ZeroNegativeOf(ShiftNew(op))
\* ROL A of 0x80 with the carry set: 0x01, and the carry set again.
C28_RotatedCarryThrough ==
    /\ Ran(\h2A)
    /\ Pre.A = \h80 /\ CarryIn = 1
    /\ cpu.A = \h01
    /\ get_flag(cpu, FLAG_CARRY) = 1

\* The RTS just executed closed the frame of a JSR with the stack pointer two
\* below the one the JSR found.
RtsOfJsr ==
    /\ Ran(\h60)
    /\ Closed.by = "JSR"
    /\ Pre.SP = U8(Closed.SP + 256 - 2)

\* C29: JSR at a with target t pushes a + 2, high byte first, lowers SP by 2
\* and sets PC = t; an RTS that follows with the stack balanced sets
\* PC = a + 3 and restores SP.
C29_CallAndReturn ==
    /\ Ran(\h20) =>
           /\ Pushed(0) = Hi(U16(Pre.PC + 2))
           /\ Pushed(1) = Lo(U16(Pre.PC + 2))
           /\ cpu.SP = U8(Pre.SP + 256 - 2)
           /\ cpu.PC = Operand16
    /\ RtsOfJsr =>
           /\ cpu.PC = U16(Closed.PC + 3)
           /\ cpu.SP = Closed.SP
\* The subroutine at 0x8020 has returned behind the JSR at 0x8000.
C29_Returned ==
    /\ RtsOfJsr
    /\ Pre.PC = \h8020
    /\ cpu.PC = \h8003

\* The pull just executed closed the frame of the matching push, with the
\* stack pointer one below the one the push found.
PullOf(pull, push) ==
    /\ Ran(pull)
    /\ Closed.by = push
    /\ Pre.SP = U8(Closed.SP + 256 - 1)

\* C30: PHA; PLA leaves A and SP unchanged, sets Z and N from A and changes no
\* other flag; PHP; PLP leaves C, Z, I, D, V, N and SP unchanged, with B clear
\* and U set afterwards.
C30_PushThenPull ==
    /\ PullOf(\h68, "PHA") =>
           /\ cpu.A = Closed.A
           /\ cpu.SP = Closed.SP
           /\ ZeroNegativeOf(Closed.A)
           /\ \A f \in (0 .. 7) \ {FLAG_ZERO, FLAG_NEGATIVE} :
                  Bit(cpu.P, f) = Bit(Closed.P, f)
    /\ PullOf(\h28, "PHP") =>
           /\ \A f \in ArithmeticFlags : Bit(cpu.P, f) = Bit(Closed.P, f)
           /\ cpu.SP = Closed.SP
           /\ Bit(cpu.P, FLAG_BREAK) = 0
           /\ Bit(cpu.P, FLAG_UNUSED) = 1
\* PLA brought back a zero that PHA had pushed while Z was clear.
C30_PulledZero ==
    /\ PullOf(\h68, "PHA")
    /\ Closed.A = 0
    /\ Bit(Closed.P, FLAG_ZERO) = 0
    /\ get_flag(cpu, FLAG_ZERO) = 1

\* The addresses at which the instruction just executed changed memory.
Written == {a \in DOMAIN cpu.mem \cup DOMAIN Pre.mem :
               bus_read(cpu.mem, a) # bus_read(Pre.mem, a)}
\* The stack address k bytes below the one SP pointed at, and k above.
StackBelow(k) == 256 + U8(Pre.SP + 256 - k)
StackAbove(k) == 256 + U8(Pre.SP + k)
\* Number of bytes each instruction pushes or pulls.
Pushes(op) == CASE op = \h00 -> 3 [] op = \h20 -> 2 [] op \in {\h48, \h08} -> 1 [] OTHER -> 0
Pulls(op)  == CASE op = \h40 -> 3 [] op = \h60 -> 2 [] op \in {\h68, \h28} -> 1 [] OTHER -> 0

\* C31: every push writes 0x0100 + SP and then decrements SP modulo 256, every
\* pull increments SP modulo 256 and then reads 0x0100 + SP; no stack access
\* touches memory outside 0x0100..0x01FF, also when SP wraps.
C31_StackStaysInPageOne ==
    \A op \in {\h00, \h20, \h48, \h08, \h40, \h60, \h68, \h28} :
        Ran(op) =>
            /\ Written \subseteq {StackBelow(k) : k \in 0 .. Pushes(op) - 1}
            /\ Written \subseteq 256 .. 511
            /\ cpu.SP = U8(Pre.SP + 256 - Pushes(op) + Pulls(op))
            /\ op = \h48 => bus_read(cpu.mem, StackBelow(0)) = Pre.A
            /\ op = \h20 => /\ bus_read(cpu.mem, StackBelow(0)) = Hi(U16(Pre.PC + 2))
                            /\ bus_read(cpu.mem, StackBelow(1)) = Lo(U16(Pre.PC + 2))
            /\ op = \h68 => cpu.A = bus_read(Pre.mem, StackAbove(1))
            /\ op = \h60 => cpu.PC = U16(Word(bus_read(Pre.mem, StackAbove(1)),
                                              bus_read(Pre.mem, StackAbove(2))) + 1)
\* PLA with SP = 0xFF read 0x0100 and left SP = 0x00, after a PHA at SP = 0x00
\* had written there.
C31_PulledAcrossWrap ==
    /\ Ran(\h68)
    /\ Pre.SP = \hFF
    /\ cpu.SP = \h00
    /\ cpu.A = bus_read(Pre.mem, \h0100)
    /\ cpu.A # 0

(***************************************************************************)
(* The memory operations one at a time: SpecMemory.  The store and the     *)
(* output queue are as an earlier run left them, and one of the bus write   *)
(* of the monitored RAM, the write and read of the memory test,             *)
(* cpu_load_program and cpu_reset is applied; cpu_reset may follow any of   *)
(* them, as in load_binary.                                                 *)
(***************************************************************************)
\* monitored.h, lines 12-14.
MONITORED_ADDR_OUTPUT_CHAR       == 24576   \* 0x6000
MONITORED_ADDR_TEST_STATUS       == 24577   \* 0x6001
MONITORED_ADDR_ADDITIONAL_STATUS == 24578   \* 0x6002

\* The 1024 slots of queue.h hold the 29-byte status message 35 times and the
\* scaled QUEUE_SIZE holds it not even once, so the output queue of
\* SpecMemory has MessageQueueSize slots: the message fits into an empty
\* queue and into no queue that holds more than three bytes.
MessageQueueSize == 32

\* "6502 FUNCTIONAL TEST ", "PASSED", "FAILED", "\r\n" and the pieces of the
\* additional status, as the bytes of their characters.
TextFunctionalTest == <<\h36, \h35, \h30, \h32, \h20, \h46, \h55, \h4E, \h43, \h54, \h49,
                        \h4F, \h4E, \h41, \h4C, \h20, \h54, \h45, \h53, \h54, \h20>>
TextPassed    == <<\h50, \h41, \h53, \h53, \h45, \h44>>
TextFailed    == <<\h46, \h41, \h49, \h4C, \h45, \h44>>
TextCRLF      == <<\h0D, \h0A>>
TextLF        == <<\h0A>>
TextOpen      == <<\h20, \h28, \h30, \h78>>
TextClose     == <<\h29>>
TextErrorCode == <<\h20, \h77, \h69, \h74, \h68, \h20, \h45, \h72, \h72, \h6F, \h72,
                   \h20, \h43, \h6F, \h64, \h65, \h20, \h30, \h78>>

\* printf's %02X and %04X.
HexDigit(n) == IF n < 10 THEN 48 + n ELSE 55 + n
Hex2(byte)  == <<HexDigit(byte \div 16), HexDigit(byte % 16)>>
Hex4(word)  == Hex2(Hi(word)) \o Hex2(Lo(word))

\* The message of the other copy of monitored.c, which ends in a bare "\n".
test_status_message_lf(data) ==
    TextFunctionalTest \o (IF data = 0 THEN TextPassed ELSE TextFailed) \o TextLF
\* monitored_ram_write, lines 56-58.
test_status_message(data) ==
    TextFunctionalTest \o (IF data = 0 THEN TextPassed ELSE TextFailed) \o TextCRLF
\* monitored_ram_write, lines 70-82.
additional_status_message(addr, data) ==
    IF data = 0
    THEN TextFunctionalTest \o TextPassed \o TextOpen \o Hex4(addr) \o TextClose \o TextCRLF
    ELSE TextFunctionalTest \o TextFailed \o TextOpen \o Hex4(addr) \o TextClose
             \o TextErrorCode \o Hex2(data) \o TextCRLF

\* A monitored RAM that echoes the byte written to any address.
monitored_ram_write_echo(c, addr, data) ==
    [c EXCEPT !.mem = ram_write(@, addr % RAM_SIZE, data),
              !.output_queue = queue_enqueue(@, data).q]
\* monitored_ram_write, lines 35-97: the store at addr & (size - 1), then the
\* switch on addr; each queue_enqueue is on its own and its result is dropped.
monitored_ram_write(c, addr, data) ==
    LET stored == [c EXCEPT !.mem = ram_write(@, addr % RAM_SIZE, data)]
    IN  CASE addr = MONITORED_ADDR_OUTPUT_CHAR ->
                 [stored EXCEPT !.output_queue = queue_enqueue(@, data).q]
          [] addr = MONITORED_ADDR_TEST_STATUS ->
                 [stored EXCEPT !.output_queue = EnqueueAll(@, test_status_message(data))]
          [] addr = MONITORED_ADDR_ADDITIONAL_STATUS ->
                 [stored EXCEPT !.output_queue =
                                    EnqueueAll(@, additional_status_message(addr, data))]
          [] OTHER -> stored

\* cpu_load_program, lines 1575-1579: cpu_write(cpu, addr + (uint16_t)i,
\* buffer[i]) for each byte; the sum is cut to the uint16_t of the parameter.
RECURSIVE load_bytes(_, _, _, _)
load_bytes(c, buffer, addr, i) ==
    IF i >= Len(buffer) THEN c
    ELSE load_bytes(cpu_write(c, U16(addr + U16(i)), buffer[i + 1]), buffer, addr, i + 1)

\* cpu_load_program, lines 1528-1591.  file is what fopen and fread give: NoFile
\* when the file cannot be opened, else its bytes.
NoFile == <<-1>>
cpu_load_program(c, file, addr) ==
    IF file = NoFile THEN [cpu |-> c, status |-> "CPU_ERROR_FILE_NOT_FOUND"]
    ELSE IF Len(file) = 0 THEN [cpu |-> c, status |-> "CPU_ERROR_READ_FAILED"]
    ELSE LET loaded == load_bytes(c, file, addr, 0)
             low == cpu_write(loaded, \hFFFC, addr % 256)
         IN  [cpu |-> cpu_write(low, \hFFFD, (addr \div 256) % 256),
              status |-> "CPU_SUCCESS"]

\* The inputs of the operations.
MemoryBytes    == {\h00, \h41, \hFF}
MonitoredAddrs == {MONITORED_ADDR_OUTPUT_CHAR, MONITORED_ADDR_TEST_STATUS,
                   MONITORED_ADDR_ADDITIONAL_STATUS, \h2000, \h5FFF, \hD012}
MemoryAddrs    == {\h0000, \h2000, \h6000, \hD010, INPUT_ADDR, OUTPUT_ADDR, \hFFFF}
LoadFiles      == {NoFile, << >>, <<\hA9, \h41, \h02>>, <<\h11, \h22>>,
                   <<\h01, \h02, \h03, \h04>>}
LoadAddrs      == {\h0400, \h8000, \hD011, \hFFFA, \hFFFD, \hFFFE}
\* What the store holds before: a byte behind each port, one at 0x2000, a
\* reset vector.
MemoryStore == At(\h2000, <<\h77>>) @@ At(INPUT_ADDR, <<BackingByte, BackingByte>>)
                   @@ At(\hFFFC, <<\h00, \h80>>)
\* The bytes the output queue holds before, and where its head is.
MemoryFills == {0, MessageQueueSize - 29, MessageQueueSize - 28,
                MessageQueueSize - 1, MessageQueueSize}
MemoryHeads == {0, 5}

queue_sized(n) == [data |-> [i \in 0 .. (n - 1) |-> 0], head |-> 0, tail |-> 0, count |-> 0]
RECURSIVE DequeueN(_, _)
DequeueN(q, n) ==
    IF n = 0 THEN q
    ELSE LET r == queue_dequeue(q)
         IN  IF r.ret THEN DequeueN(r.q, n - 1) ELSE DequeueN(q, n - 1)
\* A queue of MessageQueueSize slots after head + fill bytes were written and
\* head of them sent.
UsedQueue(head, fill) ==
    EnqueueAll(DequeueN(EnqueueAll(queue_sized(MessageQueueSize), Repeat(<<\h2E>>, head)),
                        head),
               Repeat(<<\h2E>>, fill))

InitMemory ==
    /\ \E head \in MemoryHeads, fill \in MemoryFills, line \in InputLines :
          cpu = [cpu_init(MemoryStore) EXCEPT
                     !.input_queue = EnqueueAll(@, line),
                     !.output_queue = UsedQueue(head, fill)]
    /\ InitCpuVars
    /\ InitQueueVars
    /\ InitHostVars

Applied(op, c, addr, data) ==
    [op |-> op, before |-> [cpu |-> c, addr |-> addr, data |-> data]]
KeepMemory == UNCHANGED <<epc, handle_nmi, handle_irq, smp, serviced, injSince, owed,
                          frames, queueVars, hostVars>>

\* unit_tests.c, lines 95-101: the test writes the registers.
SetRegisters ==
    /\ last.op = "init"
    /\ \E v \in {\hFF, \h42} :
          cpu' = [cpu EXCEPT !.A = v, !.X = v, !.Y = v, !.SP = v, !.P = v, !.PC = \h1234]
    /\ last' = Did("set_registers")
    /\ UNCHANGED status
    /\ KeepMemory

\* bus_write on the monitored RAM connected over 0x0000..0xFFFF.
MonitoredWrite ==
    /\ last.op = "init"
    /\ \E addr \in MonitoredAddrs, data \in MemoryBytes :
          /\ cpu' = monitored_ram_write(cpu, addr, data)
          /\ last' = Applied("monitored_ram_write", cpu, addr, data)
    /\ UNCHANGED status
    /\ KeepMemory

\* unit_tests.c, lines 122-123: cpu_write(addr, data), then cpu_read(addr);
\* value (history) is what the read returned, written is the cpu_6502_t
\* between the two.
MemoryReadWrite ==
    /\ last.op = "init"
    /\ \E addr \in MemoryAddrs, data \in MemoryBytes :
          LET written == cpu_write(cpu, addr, data)
              read == cpu_read(written, addr)
          IN  /\ cpu' = read.cpu
              /\ last' = [op |-> "cpu_write_read",
                          before |-> [cpu |-> cpu, addr |-> addr, data |-> data],
                          written |-> written, value |-> read.val]
    /\ UNCHANGED status
    /\ KeepMemory

LoadProgram ==
    /\ last.op = "init"
    /\ \E file \in LoadFiles, addr \in LoadAddrs :
          LET r == cpu_load_program(cpu, file, addr)
          IN  /\ cpu' = r.cpu
              /\ status' = r.status
              /\ last' = Applied("cpu_load_program", cpu, addr, file)
    /\ KeepMemory

NextMemory == SetRegisters \/ MonitoredWrite \/ MemoryReadWrite \/ LoadProgram \/ Reset
SpecMemory == InitMemory /\ [][NextMemory]_vars

Wrote(addr) == last.op = "monitored_ram_write" /\ last.before.addr = addr
Appended == SubSeq(Contents(cpu.output_queue), Len(Contents(Pre.output_queue)) + 1,
                   Len(Contents(cpu.output_queue)))
Room == MessageQueueSize - Pre.output_queue.count

\* C32: a bus write of b to 0x6000 in the monitored RAM stores b at 0x6000 and
\* appends exactly the one byte b to the output queue (which, as for every
\* enqueue, has a free slot); a write to an address that is not monitored
\* appends nothing; either way the bytes queued before stay as they are and
\* no other byte of the store changes.
C32_OutputCharEnqueuedOnce ==
    \A addr \in MonitoredAddrs :
        Wrote(addr) =>
            /\ bus_read(cpu.mem, addr) = last.before.data
            /\ \A a \in (DOMAIN cpu.mem \cup DOMAIN Pre.mem) \ {addr} :
                   bus_read(cpu.mem, a) = bus_read(Pre.mem, a)
            /\ SubSeq(Contents(cpu.output_queue), 1, Len(Contents(Pre.output_queue)))
                   = Contents(Pre.output_queue)
            /\ (addr = MONITORED_ADDR_OUTPUT_CHAR /\ Room > 0) =>
                   Appended = <<last.before.data>>
            /\ addr \notin {MONITORED_ADDR_OUTPUT_CHAR, MONITORED_ADDR_TEST_STATUS,
                            MONITORED_ADDR_ADDITIONAL_STATUS} =>
                   cpu.output_queue = Pre.output_queue

\* 0x41 written to 0x6000 with the head of the queue moved on and bytes
\* waiting: the queue holds them and then 0x41.
C32_CharacterQueuedBehindOthers ==
    /\ Wrote(MONITORED_ADDR_OUTPUT_CHAR)
    /\ last.before.data = \h41
    /\ Pre.output_queue.head = 5
    /\ Pre.output_queue.count = MessageQueueSize - 29
    /\ Contents(cpu.output_queue) = Append(Contents(Pre.output_queue), \h41)
    /\ bus_read(cpu.mem, \h6000) = \h41

WroteAndRead == last.op = "cpu_write_read"

\* C34: for every address a other than 0xD011 and 0xD012, cpu_write(a, b)
\* followed by cpu_read(a) returns b; and a read, of the ports too, leaves
\* every byte of memory as the write left it.
C34_WriteThenReadReturnsByte ==
    WroteAndRead =>
        /\ last.before.addr \notin {INPUT_ADDR, OUTPUT_ADDR} =>
               last.value = last.before.data
        /\ cpu.mem = last.written.mem

\* 0xFF written to the last address, 0xFFFF, and read back.
C34_ReadBackTopOfMemory ==
    /\ WroteAndRead
    /\ last.before.addr = \hFFFF
    /\ last.before.data = \hFF
    /\ bus_read(Pre.mem, \hFFFF) = 0
    /\ last.value = \hFF

\* cpu_load_program was called with a file that could be opened and read, of
\* at least one byte.
Loaded == /\ last.op = "cpu_load_program"
          /\ last.before.data # NoFile
          /\ Len(last.before.data) > 0
Fits == Len(last.before.data) <= 65536 - last.before.addr

\* C35: after cpu_load_program succeeds for an n-byte image at base address b
\* (an image that ends at or below 0xFFFF, and here one that ends below the
\* reset vector), every byte i of the image is at address b + i, and 0xFFFC
\* and 0xFFFD hold the low and the high byte of b.
C35_ImageCopiedToBase ==
    (Loaded /\ Fits /\ status = "CPU_SUCCESS"
            /\ last.before.addr + Len(last.before.data) <= \hFFFC) =>
        /\ \A i \in 0 .. (Len(last.before.data) - 1) :
               bus_read(cpu.mem, last.before.addr + i) = last.before.data[i + 1]
        /\ bus_read(cpu.mem, \hFFFC) = Lo(last.before.addr)
        /\ bus_read(cpu.mem, \hFFFD) = Hi(last.before.addr)

\* C36: cpu_load_program rejects with the memory-overflow error, writing
\* nothing, every image longer than 0x10000 - base_addr.
C36_OverlongImageRejected ==
    (Loaded /\ ~Fits) =>
        /\ status = "CPU_ERROR_MEMORY_OVERFLOW"
        /\ cpu = Pre

\* C37: after cpu_init A = X = Y = 0, SP = 0xFD, PC = 0x0000 and P = 0x34; and
\* cpu_reset, whatever the registers held, leaves A = X = Y = 0, SP = 0xFD and
\* P = 0x34.
C37_InitAndResetRegisters ==
    /\ last.op = "init" =>
           /\ cpu.A = 0 /\ cpu.X = 0 /\ cpu.Y = 0
           /\ cpu.SP = \hFD /\ cpu.PC = 0 /\ cpu.P = \h34
    /\ last.op = "cpu_reset" =>
           /\ cpu.A = 0 /\ cpu.X = 0 /\ cpu.Y = 0
           /\ cpu.SP = \hFD /\ cpu.P = \h34

\* cpu_reset found 0xFF in A, X, Y, SP and P and 0x1234 in PC.
C37_ResetAfterRegistersSet ==
    /\ last.op = "cpu_reset"
    /\ last.before.A = \hFF /\ last.before.X = \hFF /\ last.before.Y = \hFF
    /\ last.before.SP = \hFF /\ last.before.P = \hFF /\ last.before.PC = \h1234
    /\ cpu.P = \h34 /\ cpu.SP = \hFD /\ cpu.A = 0

(***************************************************************************)
(* SpecRender: the host program with a line of serial input typed, the     *)
(* emulation thread running the guest that reads the input port, the user   *)
(* pausing and resuming it, and the render thread drawing the CPU pane.     *)
(***************************************************************************)
RenderLines == {<<\h41>>, <<\h80, \h0D, \h01>>}

InitRender ==
    /\ \E line \in RenderLines :
          cpu = [load_binary(cpu_init(ImageFrame), ImageFrame) EXCEPT
                     !.input_queue = EnqueueAll(@, line)]
    /\ host = [emulator_paused |-> TRUE, emulator_exit |-> FALSE,
               emulator_reset |-> FALSE, step_mode |-> FALSE,
               step_instruction |-> FALSE, loop |-> "top", failed |-> FALSE]
    /\ ctl = NoCtl
    /\ clk = NoClk
    /\ InitCpuVars
    /\ InitQueueVars

NextRender ==
    \/ EmulatorTop
    \/ EmulatorCall
    \/ EmulatorSkip
    \/ SampleInterrupts
    \/ ExecuteInstruction
    \/ EmulatorReturn
    \/ KeyF2
    \/ print_cpu_state

SpecRender == InitRender /\ [][NextRender]_vars

\* C38: a byte leaves the input queue only through a guest read of 0xD011 by
\* the emulation thread, which receives the oldest byte, the ones behind it
\* staying in order; drawing the CPU pane never removes a byte.
C38_InputLeavesOnlyByGuestRead ==
    [][Contents(cpu'.input_queue) # Contents(cpu.input_queue) =>
           /\ last'.op = "ExecuteInstruction"
           /\ last'.before.opcode = \hAD
           /\ cpu.input_queue.count > 0
           /\ cpu'.A = Head(Contents(cpu.input_queue))
           /\ Contents(cpu'.input_queue) = Tail(Contents(cpu.input_queue))]_vars

(***************************************************************************)
(* SpecFlags: the emulation loop and the key handlers of the input thread  *)
(* on the volatile flags, one read or write of a flag at a time.  No lock   *)
(* is held around them.  host.loop is the place of the emulation thread,    *)
(* host.key the place of the input thread inside a handler.  History:       *)
(* asked counts the F7 keys (at the first write of the handler), stepped    *)
(* the instructions begun because the test found step_mode and              *)
(* step_instruction, via the branch of the test the instruction in progress *)
(* came by, resumed whether F2 or F5 was ever pressed.                      *)
(***************************************************************************)
MaxKeys == 3

InitFlags ==
    /\ cpu = load_binary(cpu_init(ImageLoop), ImageLoop)
    /\ host = [emulator_paused |-> TRUE, emulator_exit |-> FALSE,
               emulator_reset |-> FALSE, step_mode |-> FALSE,
               step_instruction |-> FALSE, loop |-> "top", failed |-> FALSE,
               key |-> "idle", keys |-> 0, asked |-> 0, stepped |-> 0,
               via |-> "none", resumed |-> FALSE]
    /\ ctl = NoCtl
    /\ clk = NoClk
    /\ InitCpuVars
    /\ InitQueueVars

KeepFlags == UNCHANGED <<handle_nmi, handle_irq, status, smp, serviced, injSince, owed,
                         frames, queueVars, ctl, clk>>

\* emulator_loop, lines 854-876: while (!emulator_exit), the reset request.
LoopTop ==
    /\ host.loop = "top"
    /\ IF host.emulator_exit
       THEN /\ host' = [host EXCEPT !.loop = "exited"]
            /\ UNCHANGED <<cpu, last>>
       ELSE IF host.emulator_reset
       THEN /\ cpu' = load_binary(cpu, ImageLoop)
            /\ host' = [host EXCEPT !.emulator_reset = FALSE, !.emulator_paused = TRUE,
                                    !.step_mode = FALSE, !.loop = "test_paused"]
            /\ last' = Did("load_binary")
       ELSE /\ host' = [host EXCEPT !.loop = "test_paused"]
            /\ UNCHANGED <<cpu, last>>
    /\ UNCHANGED epc
    /\ KeepFlags

\* Line 879, !emulator_paused: when it holds the call of line 881 follows.
LoopTestPaused ==
    /\ host.loop = "test_paused"
    /\ host.emulator_paused \/ cpu.cycle_count < MaxCycles
    /\ IF host.emulator_paused
       THEN /\ host' = [host EXCEPT !.loop = "test_mode"]
            /\ UNCHANGED <<epc, last>>
       ELSE /\ host' = [host EXCEPT !.loop = "step", !.via = "running"]
            /\ epc' = "sample"
            /\ last' = Did("PauseWait")
    /\ UNCHANGED cpu
    /\ KeepFlags

\* Line 879, step_mode; when it fails, the usleep of line 926.
LoopTestMode ==
    /\ host.loop = "test_mode"
    /\ host' = [host EXCEPT !.loop = IF host.step_mode THEN "test_instruction" ELSE "top"]
    /\ UNCHANGED <<cpu, epc, last>>
    /\ KeepFlags

\* Line 879, step_instruction; when it holds the call of line 881 follows.
LoopTestInstruction ==
    /\ host.loop = "test_instruction"
    /\ ~host.step_instruction \/ cpu.cycle_count < MaxCycles
    /\ IF host.step_instruction
       THEN /\ host' = [host EXCEPT !.loop = "step", !.via = "step",
                                    !.stepped = @ + 1]
            /\ epc' = "sample"
            /\ last' = Did("PauseWait")
       ELSE /\ host' = [host EXCEPT !.loop = "top"]
            /\ UNCHANGED <<epc, last>>
    /\ UNCHANGED cpu
    /\ KeepFlags

\* Lines 881-887: the step has returned; on an error emulator_exit and break.
LoopReturn ==
    /\ host.loop = "step"
    /\ epc \in {"entry", "done"}
    /\ host' = IF step_failed(status)
               THEN [host EXCEPT !.emulator_exit = TRUE, !.loop = "exited", !.failed = TRUE]
               ELSE [host EXCEPT !.loop = "returned"]
    /\ last' = Did("emulator_loop")
    /\ UNCHANGED <<cpu, epc>>
    /\ KeepFlags

\* Lines 893-899 and 926: if (step_mode) step_instruction = false, then
\* clock_wait_next_cycle and the usleep.
LoopStepDone ==
    /\ host.loop = "returned"
    /\ host' = [host EXCEPT !.step_instruction = IF host.step_mode THEN FALSE ELSE @,
                            !.loop = "top", !.via = "none"]
    /\ cpu' = clock_wait_next_cycle(cpu)
    /\ last' = Did("emulator_loop")
    /\ UNCHANGED epc
    /\ KeepFlags

KeyPressed == host.key = "idle" /\ ~host.emulator_exit /\ host.keys < MaxKeys
KeyStep(next) ==
    /\ host' = next
    /\ last' = Did("serial_input_thread")
    /\ UNCHANGED <<cpu, epc>>
    /\ KeepFlags

\* serial_input_thread, line 500: emulator_paused = !emulator_paused.
FlagF2Paused ==
    /\ KeyPressed
    /\ KeyStep([host EXCEPT !.emulator_paused = ~@, !.key = "F2_mode", !.keys = @ + 1,
                            !.resumed = TRUE])
\* Line 501: step_mode = false.
FlagF2Mode ==
    /\ host.key = "F2_mode"
    /\ KeyStep([host EXCEPT !.step_mode = FALSE, !.key = "idle"])
\* Line 520: emulator_reset = true.
FlagF5Reset ==
    /\ KeyPressed
    /\ KeyStep([host EXCEPT !.emulator_reset = TRUE, !.keys = @ + 1, !.resumed = TRUE])
\* Line 532: emulator_paused = true.
FlagF7Paused ==
    /\ KeyPressed
    /\ KeyStep([host EXCEPT !.emulator_paused = TRUE, !.key = "F7_mode", !.keys = @ + 1,
                            !.asked = @ + 1])
\* Line 533: step_mode = true.
FlagF7Mode ==
    /\ host.key = "F7_mode"
    /\ KeyStep([host EXCEPT !.step_mode = TRUE, !.key = "F7_instruction"])
\* Line 534: step_instruction = true.
FlagF7Instruction ==
    /\ host.key = "F7_instruction"
    /\ KeyStep([host EXCEPT !.step_instruction = TRUE, !.key = "idle"])

NextFlags ==
    \/ LoopTop
    \/ LoopTestPaused
    \/ LoopTestMode
    \/ LoopTestInstruction
    \/ SampleInterrupts
    \/ ExecuteInstruction
    \/ LoopReturn
    \/ LoopStepDone
    \/ FlagF2Paused
    \/ FlagF2Mode
    \/ FlagF5Reset
    \/ FlagF7Paused
    \/ FlagF7Mode
    \/ FlagF7Instruction

SpecFlags == InitFlags /\ [][NextFlags]_vars

\* The emulation thread is between two passes of its loop, the input thread
\* between two keys, and no step or reset is waiting to be seen.
Quiet ==
    /\ host.loop = "top"
    /\ host.key = "idle"
    /\ ~host.step_instruction
    /\ ~host.emulator_reset
    /\ ~host.emulator_exit

\* C39: while the emulator is paused no instruction executes unless a step
\* was requested, and each step request results in exactly one instruction:
\* with the emulator never resumed or reset, an instruction in progress came
\* by the step test; the steps begun never exceed the F7 keys pressed; and
\* when both threads are at rest with no step waiting, every F7 key pressed
\* has had its step.
C39_EachStepRunsOneInstruction ==
    /\ (host.loop = "step" /\ ~host.resumed) => host.via = "step"
    /\ host.stepped <= host.asked
    /\ (Quiet /\ ~host.resumed) => host.stepped = host.asked

(***************************************************************************)
(* SpecLocks: the threads main starts, each as the sequence of              *)
(* pthread_mutex_lock and pthread_mutex_unlock calls of one pass of its     *)
(* loop, one call at a time.  host.owner is the holder of each mutex,       *)
(* host.todo the calls a thread has still to make in its pass, host.gone    *)
(* the injector threads that have returned.                                 *)
(***************************************************************************)
Mutexes == {"lock", "input_queue_mutex", "output_queue_mutex", "input_queue.mutex",
            "output_queue.mutex", "interrupt_mutex", "pause_mutex"}
LockThreads == {"emulator_loop", "serial_input_thread", "serial_output_thread",
                "render_interface", "inject_IRQ_thread", "inject_NMI_thread"}
Injectors == {"inject_IRQ_thread", "inject_NMI_thread"}

Section(m, inner) == <<<<"lock", m>>>> \o inner \o <<<<"unlock", m>>>>

\* queue_enqueue, queue_dequeue, queue_clear: q->mutex around the body.
queue_locks(q) == Section(q, << >>)
\* A port read that draws on the screen with the queue mutex held.
cpu_read_locks_drawing ==
    Section("input_queue_mutex",
            queue_locks("input_queue.mutex") \o Section("lock", << >>))
\* cpu_read of INPUT_ADDR, lines 1438-1447.
cpu_read_locks == Section("input_queue_mutex", queue_locks("input_queue.mutex"))
\* cpu_write of OUTPUT_ADDR, lines 1456-1461.
cpu_write_locks == Section("output_queue_mutex", queue_locks("output_queue.mutex"))
\* cpu_reset, lines 1515-1524.
cpu_reset_locks == Section("interrupt_mutex", << >>) \o Section("pause_mutex", << >>)
\* load_binary: cpu_load_program (whose image may cover the output port),
\* cpu_reset, queue_clear of the output queue.
load_binary_locks(port) ==
    (IF port THEN cpu_write_locks ELSE << >>) \o cpu_reset_locks
        \o queue_locks("output_queue.mutex")
\* cpu_execute_instruction, lines 1601-1625, then the accesses of the
\* instruction: none that locks, a port read, a port write, or a write to a
\* monitored address.
cpu_execute_locks(access) ==
    <<<<"lock", "pause_mutex">>, <<"pause_test", "pause_mutex">>,
      <<"unlock", "pause_mutex">>>> \o Section("interrupt_mutex", << >>) \o access

ThreadPaths(t) ==
    CASE t = "emulator_loop" ->
             {cpu_execute_locks(a) : a \in {<< >>, cpu_read_locks, cpu_write_locks,
                                            queue_locks("output_queue.mutex")}}
                 \cup {load_binary_locks(port) : port \in BOOLEAN}
      [] t = "serial_input_thread" ->
             {Section("lock", << >>),
              queue_locks("input_queue.mutex") \o Section("lock", << >>),
              Section("lock", Section("pause_mutex", << >>))}
                 \cup {Section("lock", load_binary_locks(port)) : port \in BOOLEAN}
      [] t = "serial_output_thread" ->
             {queue_locks("output_queue.mutex"),
              queue_locks("output_queue.mutex") \o Section("lock", << >>)}
      [] t = "render_interface" -> {Section("lock", cpu_read_locks)}
      [] OTHER -> {Section("interrupt_mutex", << >>)}

InitLocks ==
    /\ cpu = load_binary(cpu_init(ImageLoop), ImageLoop)
    /\ host = [owner |-> [m \in Mutexes |-> "free"],
               todo |-> [t \in LockThreads |-> << >>],
               gone |-> {}]
    /\ ctl = NoCtl
    /\ clk = NoClk
    /\ InitCpuVars
    /\ InitQueueVars

KeepLocks == UNCHANGED <<cpu, epc, handle_nmi, handle_irq, status, smp, serviced, injSince,
                         owed, frames, last, queueVars, ctl, clk>>
Moved(next) ==
    /\ host' = next
    /\ KeepLocks

\* A thread begins a pass of its loop; an injector thread makes one.
ThreadPass ==
    \E t \in LockThreads \ host.gone :
        /\ host.todo[t] = << >>
        /\ \E path \in ThreadPaths(t) :
               Moved([host EXCEPT !.todo[t] = path,
                                     !.gone = IF t \in Injectors THEN @ \cup {t} ELSE @])

MutexLock ==
    \E t \in LockThreads :
        /\ host.todo[t] # << >>
        /\ Head(host.todo[t])[1] = "lock"
        /\ host.owner[Head(host.todo[t])[2]] = "free"
        /\ Moved([host EXCEPT !.owner[Head(host.todo[t])[2]] = t,
                                 !.todo[t] = Tail(@)])

\* Lines 1603-1606: while (cpu->paused) pthread_cond_wait; the wait returns
\* once the flag is clear.
PauseTest ==
    \E t \in LockThreads :
        /\ host.todo[t] # << >>
        /\ Head(host.todo[t])[1] = "pause_test"
        /\ ~cpu.paused
        /\ Moved([host EXCEPT !.todo[t] = Tail(@)])

MutexUnlock ==
    \E t \in LockThreads :
        /\ host.todo[t] # << >>
        /\ Head(host.todo[t])[1] = "unlock"
        /\ Moved([host EXCEPT !.owner[Head(host.todo[t])[2]] = "free",
                                 !.todo[t] = Tail(@)])

NextLocks == ThreadPass \/ MutexLock \/ PauseTest \/ MutexUnlock
SpecLocks == InitLocks /\ [][NextLocks]_vars

Held(t) == {m \in Mutexes : host.owner[m] = t}
Wants(t, m) == host.todo[t] # << >> /\ Head(host.todo[t]) = <<"lock", m>>
Blocked(t) == \E m \in Mutexes : Wants(t, m) /\ host.owner[m] # "free"
Awaited(t) == host.owner[CHOOSE m \in Mutexes : Wants(t, m)]
\* t is not blocked, or the thread it waits for is not, and so on.
RECURSIVE Unblocks(_, _)
Unblocks(t, n) ==
    IF ~Blocked(t) THEN TRUE ELSE IF n = 0 THEN FALSE ELSE Unblocks(Awaited(t), n - 1)
\* The order of acquisition: the screen lock, then a mutex of the cpu_6502_t,
\* then the mutex inside a queue.
Rank(m) == CASE m = "lock" -> 0
             [] m \in {"input_queue.mutex", "output_queue.mutex"} -> 2
             [] OTHER -> 1

\* C40: no thread is ever in a cycle of threads waiting for each other's
\* mutexes; every thread takes the mutexes in one order (the screen lock
\* before a mutex of the CPU, that before the mutex inside a queue, and never
\* two of one level); and the thread at the pause test or wait holds the pause
\* mutex and nothing else.
C40_NoDeadlockLocksOrdered ==
    \A t \in LockThreads :
        /\ Unblocks(t, Cardinality(LockThreads))
        /\ \A m \in Mutexes : Wants(t, m) => \A h \in Held(t) : Rank(h) < Rank(m)
        /\ (host.todo[t] # << >> /\ Head(host.todo[t])[1] = "pause_test") =>
               Held(t) = {"pause_mutex"}

\* The render thread is inside cpu_read with the screen lock and the input
\* queue mutex, the emulation thread waits for the input queue mutex and the
\* input thread for the screen lock.
C40_ThreadsWaitOnRender ==
    /\ Held("render_interface") = {"lock", "input_queue_mutex", "input_queue.mutex"}
    /\ Wants("emulator_loop", "input_queue_mutex")
    /\ Wants("serial_input_thread", "lock")
    /\ Held("serial_input_thread") = {}
====
